---- MODULE Spec2Model ----
(***************************************************************************)
(* Verification model of the freight-broker negotiation core               *)
(* (src/app/enhanced_services.py, class NegotiationEngine).                *)
(*                                                                         *)
(* Amounts (load_rate, carrier_offer, counter_rate, final_rate) are        *)
(* integers counting hundredths of the currency unit (cents).  The         *)
(* intermediate concession and the unrounded counter are carried in        *)
(* hundredths of a cent (Fine per cent), which represents gap * 0.20,      *)
(* gap * 0.40, gap * 0.60 and the factor 1.5 exactly.  The threshold       *)
(* comparisons on rate_difference are made on the exact quotient           *)
(* |carrier_offer - load_rate| / load_rate.  round(x, 2) rounds to the     *)
(* nearest cent; when x lies exactly half-way between two cents, the       *)
(* result of the float computation depends on the binary representation,   *)
(* so the direction is an input (fp) of the call.                          *)
(***************************************************************************)
EXTENDS Integers, Sequences, FiniteSets, TLC

VARIABLES
  engine,     \* the attributes of the NegotiationEngine instance
  inventory,  \* LoadMatchingService.loads, the load inventory
  search,     \* arguments and result of the last search_loads call
  first,      \* arguments and result of the first search_loads call
  searches,   \* search_loads calls made so far
  call_data,  \* the call_data table: the row of each call_id
  response,   \* the last HTTP request and the response to it
  carrier,    \* the last verify_mc_number call and its result
  inbound,    \* the last process_inbound_call call and its outcome
  call_data_store,  \* the entry of each call_id (webhooks module)
  pending,    \* the verify-carrier handlers suspended at their await
  completed,  \* the webhook handlers that returned or failed, in order
  requests,   \* webhook requests received so far
  hook        \* the last webhook request answered and its response

(***************************************************************************)
(* Bounds of the model                                                     *)
(***************************************************************************)
MaxRate == 30
MaxOffer == 40
MaxRoundArg == 5
MaxCalls == 4
MaxLoads == 6
MaxSearches == 3
MaxRequests == 3

(***************************************************************************)
(* Program constants                                                       *)
(***************************************************************************)
max_negotiations == engine.max_negotiations

Fine == 100

None == [is_none |-> TRUE]

\* Posted rates: every amount of 1..MaxRate cents, and the rates 1.00 and
\* 2000.00 of the documented scenarios.
ScenarioRates == {100, 200000}
PostedRates == (1..MaxRate) \cup ScenarioRates

\* Offers around a scenario rate, in thousandths of the rate.
ScenarioPermille ==
  {600, 800, 850, 900, 925, 950, 970, 975, 1000, 1030, 1050, 1100, 1150,
   1200, 1250}

Offers(l) ==
  IF l \in ScenarioRates
  THEN {(l * m) \div 1000 : m \in ScenarioPermille}
  ELSE 0..MaxOffer

\* carrier_history: None, a dict without a reliability score, or a dict
\* holding reliability_score.
Histories ==
  {None, [mc_number |-> 0]} \cup
  {[reliability_score |-> s] : s \in {85, 86, 90}}

Abs(x) == IF x < 0 THEN -x ELSE x

(***************************************************************************)
(* NegotiationEngine                                                       *)
(***************************************************************************)

\* dict.get(key, default) on a carrier_history that is not None
DictGet(d, key, default) == IF key \in DOMAIN d THEN d[key] ELSE default

\* variant: the threshold comparisons are strict
RateDifferenceLt(load_rate, carrier_offer, pct) ==
  Abs(carrier_offer - load_rate) * 100 < pct * load_rate

\* rate_difference <= pct / 100, with
\* rate_difference = abs(carrier_offer - load_rate) / load_rate
RateDifferenceLeq(load_rate, carrier_offer, pct) ==
  Abs(carrier_offer - load_rate) * 100 <= pct * load_rate

\* variant: the over-offer test is inverted
OfferRatioBelowOne(load_rate, carrier_offer) == carrier_offer < load_rate

\* offer_ratio = carrier_offer / load_rate; offer_ratio > 1
OfferRatioAboveOne(load_rate, carrier_offer) == carrier_offer > load_rate

\* round(x, 2) of an amount x given in hundredths of a cent: the nearest
\* cent; fp decides a tie.
Round2(x, fp) ==
  LET q == x \div Fine
      r == x % Fine
  IN  IF 2 * r < Fine THEN q
      ELSE IF 2 * r > Fine THEN q + 1
      ELSE IF fp THEN q + 1 ELSE q

\* variant: a reliability of exactly 85 already qualifies
_get_strategy_from_85(round_num, carrier_history) ==
  IF carrier_history # None
     /\ DictGet(carrier_history, "reliability_score", 0) >= 85
  THEN "accommodating"
  ELSE IF round_num = 1 THEN "balanced"
  ELSE IF round_num = 2 THEN "aggressive"
  ELSE "accommodating"

_get_strategy(round_num, carrier_history) ==
  IF carrier_history # None
     /\ DictGet(carrier_history, "reliability_score", 0) > 85
  THEN "accommodating"
  ELSE IF round_num = 1 THEN "balanced"
  ELSE IF round_num = 2 THEN "aggressive"
  ELSE "accommodating"

\* concession in hundredths of a cent: gap (cents) * 0.20 | 0.40 | 0.60
Concession(gap, strategy) ==
  IF strategy = "aggressive" THEN gap * 20
  ELSE IF strategy = "balanced" THEN gap * 40
  ELSE gap * 60

\* variant: the final-round factor also applies beyond the final round
FinalRoundAdjustFrom(concession, round_num) ==
  IF round_num >= max_negotiations THEN (concession * 3) \div 2
  ELSE concession

\* concession *= 1.5 on the final round
FinalRoundAdjust(concession, round_num) ==
  IF round_num = max_negotiations THEN (concession * 3) \div 2
  ELSE concession

\* variant: the concession is added to the posted rate
_calculate_counter_offer_added(load_rate, carrier_offer, strategy, round_num, fp) ==
  LET gap == load_rate - carrier_offer
      concession == FinalRoundAdjust(Concession(gap, strategy), round_num)
      counter_rate == load_rate * Fine + concession
  IN  Round2(counter_rate, fp)

_calculate_counter_offer(load_rate, carrier_offer, strategy, round_num, fp) ==
  LET gap == load_rate - carrier_offer
      concession == FinalRoundAdjust(Concession(gap, strategy), round_num)
      counter_rate == load_rate * Fine - concession
  IN  Round2(counter_rate, fp)

AcceptOffer(final_rate, message, reason) ==
  [decision |-> "accept", final_rate |-> final_rate, message |-> message,
   negotiation_complete |-> TRUE, reason |-> reason]

\* variant: a counter-offer reports the round it was made in
CounterOfferSameRound(counter_rate, message, negotiation_round, strategy) ==
  [decision |-> "counter_offer", counter_rate |-> counter_rate,
   message |-> message, negotiation_complete |-> FALSE,
   negotiation_round |-> negotiation_round, strategy_used |-> strategy]

CounterOffer(counter_rate, message, negotiation_round, strategy) ==
  [decision |-> "counter_offer", counter_rate |-> counter_rate,
   message |-> message, negotiation_complete |-> FALSE,
   negotiation_round |-> negotiation_round + 1, strategy_used |-> strategy]

Transfer ==
  [decision |-> "transfer",
   message |-> "Let me connect you with one of our senior negotiators",
   negotiation_complete |-> TRUE,
   reason |-> "Maximum negotiation rounds reached"]

Decline ==
  [decision |-> "decline", message |-> "I'm sorry, too far from our rate",
   negotiation_complete |-> TRUE,
   reason |-> "Offer too far from acceptable range"]

\* the if / elif / else chain of evaluate_offer
\* variant: an offer above the posted rate is accepted at the offer
DecideKeepsOverOffer(load_rate, carrier_offer, negotiation_round, strategy, fp) ==
  IF RateDifferenceLeq(load_rate, carrier_offer, 3)
  THEN AcceptOffer(carrier_offer, "Perfect! We can do the offer",
                   "Offer within acceptable range")
  ELSE IF RateDifferenceLeq(load_rate, carrier_offer, 10)
  THEN CounterOffer(
         _calculate_counter_offer(load_rate, carrier_offer, strategy,
                                  negotiation_round, fp),
         "I can work with you on the rate", negotiation_round, strategy)
  ELSE IF RateDifferenceLeq(load_rate, carrier_offer, 20)
          /\ negotiation_round < max_negotiations
  THEN IF OfferRatioAboveOne(load_rate, carrier_offer)
       THEN AcceptOffer(carrier_offer, "Our posted rate works great",
                        "Carrier offered above asking price")
       ELSE CounterOffer(
              _calculate_counter_offer(load_rate, carrier_offer, strategy,
                                       negotiation_round, fp),
              "There's quite a gap there", negotiation_round, strategy)
  ELSE IF negotiation_round >= max_negotiations THEN Transfer
  ELSE Decline

Decide(load_rate, carrier_offer, negotiation_round, strategy, fp) ==
  IF RateDifferenceLeq(load_rate, carrier_offer, 3)
  THEN AcceptOffer(carrier_offer, "Perfect! We can do the offer",
                   "Offer within acceptable range")
  ELSE IF RateDifferenceLeq(load_rate, carrier_offer, 10)
  THEN CounterOffer(
         _calculate_counter_offer(load_rate, carrier_offer, strategy,
                                  negotiation_round, fp),
         "I can work with you on the rate", negotiation_round, strategy)
  ELSE IF RateDifferenceLeq(load_rate, carrier_offer, 20)
          /\ negotiation_round < max_negotiations
  THEN IF OfferRatioAboveOne(load_rate, carrier_offer)
       THEN AcceptOffer(load_rate, "Our posted rate works great",
                        "Carrier offered above asking price")
       ELSE CounterOffer(
              _calculate_counter_offer(load_rate, carrier_offer, strategy,
                                       negotiation_round, fp),
              "There's quite a gap there", negotiation_round, strategy)
  ELSE IF negotiation_round >= max_negotiations THEN Transfer
  ELSE Decline

\* variant: an accommodating strategy restarts the round count
evaluate_offer_restart(load_rate, carrier_offer, negotiation_round, carrier_history, fp) ==
  LET strategy == _get_strategy(negotiation_round, carrier_history)
  IN  Decide(load_rate, carrier_offer,
             IF strategy = "accommodating" THEN 1 ELSE negotiation_round,
             strategy, fp)

evaluate_offer(load_rate, carrier_offer, negotiation_round, carrier_history, fp) ==
  LET strategy == _get_strategy(negotiation_round, carrier_history)
  IN  Decide(load_rate, carrier_offer, negotiation_round, strategy, fp)

(***************************************************************************)
(* LoadMatchingService                                                     *)
(*                                                                         *)
(* A string is a sequence of one-character strings.  A load is a dict: a   *)
(* function from its keys to values, a key that the dict does not hold is  *)
(* not in its domain.  The keyword arguments of search_loads are a dict    *)
(* criteria that holds the arguments passed; an argument left out is None. *)
(* Rates are in cents, revenue_per_mile is in cents per mile.              *)
(***************************************************************************)

\* the letters of the modelled strings, as <<lower, upper>>
LetterPairs ==
  {<<"a", "A">>, <<"b", "B">>, <<"c", "C">>, <<"d", "D">>,
   <<"e", "E">>, <<"f", "F">>, <<"g", "G">>, <<"h", "H">>,
   <<"i", "I">>, <<"j", "J">>, <<"k", "K">>, <<"l", "L">>,
   <<"m", "M">>, <<"n", "N">>, <<"o", "O">>, <<"p", "P">>,
   <<"q", "Q">>, <<"r", "R">>, <<"s", "S">>, <<"t", "T">>,
   <<"u", "U">>, <<"v", "V">>, <<"w", "W">>, <<"x", "X">>,
   <<"y", "Y">>, <<"z", "Z">>}

Chars == {p[1] : p \in LetterPairs} \cup {p[2] : p \in LetterPairs}

LowerTable ==
  [ch \in Chars |->
     IF \E p \in LetterPairs : p[2] = ch
     THEN (CHOOSE p \in LetterPairs : p[2] = ch)[1]
     ELSE ch]

UpperTable ==
  [ch \in Chars |->
     IF \E p \in LetterPairs : p[1] = ch
     THEN (CHOOSE p \in LetterPairs : p[1] = ch)[2]
     ELSE ch]

\* a character that is not a letter is left as it is
LowerChar(ch) == IF ch \in Chars THEN LowerTable[ch] ELSE ch

UpperChar(ch) == IF ch \in Chars THEN UpperTable[ch] ELSE ch

\* str.lower()
Lower(str) == [i \in 1..Len(str) |-> LowerChar(str[i])]

\* str.upper()
Upper(str) == [i \in 1..Len(str) |-> UpperChar(str[i])]

\* needle in hay, for strings
StrIn(needle, hay) ==
  \E i \in 0..(Len(hay) - Len(needle)) :
    SubSeq(hay, i + 1, i + Len(needle)) = needle

\* an optional argument is passed and not None
Given(criteria, key) == key \in DOMAIN criteria

\* truth value of an optional numeric argument: None and 0 are false
TruthyNumber(criteria, key) == Given(criteria, key) /\ criteria[key] # 0

\* variant: an empty string counts as a given argument
TruthyStringGiven(criteria, key) == Given(criteria, key)

\* truth value of an optional string argument: None and "" are false
TruthyString(criteria, key) == Given(criteria, key) /\ criteria[key] # <<>>

\* round(rate / miles, 2) in cents per mile, for rate in cents and
\* miles >= 1: the nearest integer to rate / miles, an exact tie goes to
\* the even neighbour (no modelled load has a quotient on a tie).
RoundDiv(rate, miles) ==
  LET q == rate \div miles
      r == rate % miles
  IN  IF 2 * r < miles THEN q
      ELSE IF 2 * r > miles THEN q + 1
      ELSE IF q % 2 = 0 THEN q ELSE q + 1

\* revenue_per_mile of an enhanced load
RevenuePerMile(load_rate, load_miles) ==
  IF load_miles # 0
  THEN RoundDiv(load_rate, IF load_miles > 1 THEN load_miles ELSE 1)
  ELSE 0

\* the equipment test of one load: carrier_equipment in load_equipment or
\* load_equipment in carrier_equipment, both lower-cased
EquipmentMatches(load, equipment_type) ==
  LET load_equipment == Lower(DictGet(load, "equipment_type", <<>>))
      carrier_equipment == Lower(equipment_type)
  IN  StrIn(carrier_equipment, load_equipment)
        \/ StrIn(load_equipment, carrier_equipment)

\* origin_state.upper() in load_origin (and the same for the destination)
StateMatches(load, key, state) == StrIn(Upper(state), DictGet(load, key, <<>>))

\* a matcher that scores a load of the wrong equipment instead of skipping it
SkippedNever(load, criteria) == FALSE

\* 'continue': the load is skipped by the equipment test
Skipped(load, criteria) ==
  /\ TruthyString(criteria, "equipment_type")
  /\ ~EquipmentMatches(load, criteria.equipment_type)

\* components whose geographic bonuses are 30 points each
ComponentsWideGeo(load, criteria) ==
  LET load_rate == DictGet(load, "loadboard_rate", 0)
      load_miles == DictGet(load, "miles", 0)
  IN  (IF TruthyString(criteria, "equipment_type")
       THEN << <<40, "Equipment match">> >> ELSE <<>>)
      \o (IF TruthyString(criteria, "origin_state")
             /\ StateMatches(load, "origin", criteria.origin_state)
          THEN << <<30, "Origin preference">> >> ELSE <<>>)
      \o (IF TruthyString(criteria, "destination_state")
             /\ StateMatches(load, "destination", criteria.destination_state)
          THEN << <<30, "Destination preference">> >> ELSE <<>>)
      \o (IF TruthyNumber(criteria, "min_rate")
             /\ load_rate >= criteria.min_rate
          THEN << <<15, "Rate meets minimum">> >> ELSE <<>>)
      \o (IF TruthyNumber(criteria, "max_miles")
             /\ load_miles <= criteria.max_miles
          THEN << <<5, "Within mile limit">> >> ELSE <<>>)

\* the scored components of one load that is not skipped, in the order of
\* the loop body: <<points, reason>> for each component that applies
Components(load, criteria) ==
  LET load_rate == DictGet(load, "loadboard_rate", 0)
      load_miles == DictGet(load, "miles", 0)
  IN  (IF TruthyString(criteria, "equipment_type")
       THEN << <<40, "Equipment match">> >> ELSE <<>>)
      \o (IF TruthyString(criteria, "origin_state")
             /\ StateMatches(load, "origin", criteria.origin_state)
          THEN << <<20, "Origin preference">> >> ELSE <<>>)
      \o (IF TruthyString(criteria, "destination_state")
             /\ StateMatches(load, "destination", criteria.destination_state)
          THEN << <<20, "Destination preference">> >> ELSE <<>>)
      \o (IF TruthyNumber(criteria, "min_rate")
             /\ load_rate >= criteria.min_rate
          THEN << <<15, "Rate meets minimum">> >> ELSE <<>>)
      \o (IF TruthyNumber(criteria, "max_miles")
             /\ load_miles <= criteria.max_miles
          THEN << <<5, "Within mile limit">> >> ELSE <<>>)

RECURSIVE SumPoints(_)
SumPoints(components) ==
  IF components = <<>> THEN 0
  ELSE components[1][1] + SumPoints(Tail(components))

\* match_score of one load that is not skipped
MatchScore(load, criteria) == SumPoints(Components(load, criteria))

\* reasons of one load that is not skipped
MatchReasons(load, criteria) ==
  LET components == Components(load, criteria)
  IN  [i \in 1..Len(components) |-> components[i][2]]

\* {**load, "match_score": ..., "match_reasons": ..., ...}: a new dict
EnhancedLoad(load, criteria) ==
  LET load_rate == DictGet(load, "loadboard_rate", 0)
      load_miles == DictGet(load, "miles", 0)
  IN  [match_score |-> MatchScore(load, criteria),
       match_reasons |-> MatchReasons(load, criteria),
       estimated_revenue |-> load_rate,
       revenue_per_mile |-> RevenuePerMile(load_rate, load_miles)]
      @@ load

\* match_score >= 40: minimum threshold for matching
MeetsThreshold(load, criteria) == MatchScore(load, criteria) >= 40

\* a matcher that also drops a load below min_rate or above max_miles
EligibleWithinLimits(load, criteria) ==
  /\ ~Skipped(load, criteria)
  /\ MeetsThreshold(load, criteria)
  /\ Given(criteria, "min_rate") =>
       DictGet(load, "loadboard_rate", 0) >= criteria.min_rate
  /\ Given(criteria, "max_miles") =>
       DictGet(load, "miles", 0) <= criteria.max_miles

\* the loop test of one load: not skipped by the equipment test and at or
\* above the threshold
Eligible(load, criteria) ==
  ~Skipped(load, criteria) /\ MeetsThreshold(load, criteria)

\* the for loop: the enhanced loads appended to matching_loads, in the
\* order of self.loads
AppendMatches(matching_loads, loads, criteria) ==
  LET kept == SelectSeq(loads, LAMBDA load : Eligible(load, criteria))
  IN  matching_loads
        \o [i \in 1..Len(kept) |-> EnhancedLoad(kept[i], criteria)]

\* an unstable sort: x goes in front of the elements of equal score
InsertByScoreBeforeEqual(sorted, x) ==
  LET k == Cardinality({i \in 1..Len(sorted) :
                          sorted[i].match_score > x.match_score})
  IN  SubSeq(sorted, 1, k) \o <<x>> \o SubSeq(sorted, k + 1, Len(sorted))

\* insert x into a list sorted by match_score descending, behind every
\* element whose score is not lower
InsertByScore(sorted, x) ==
  LET k == Cardinality({i \in 1..Len(sorted) :
                          sorted[i].match_score >= x.match_score})
  IN  SubSeq(sorted, 1, k) \o <<x>> \o SubSeq(sorted, k + 1, Len(sorted))

\* list.sort(key = match_score, reverse = True): stable, the elements are
\* inserted in list order
SortByScore(list) ==
  LET sorted[n \in 0..Len(list)] ==
        IF n = 0 THEN <<>> ELSE InsertByScore(sorted[n - 1], list[n])
  IN  sorted[Len(list)]

\* list[:5]
TopFive(list) == SubSeq(list, 1, IF Len(list) < 5 THEN Len(list) ELSE 5)

\* a matching_loads list kept from one call to the next
KeptMatchingLoads == IF search.called THEN search.result ELSE <<>>

\* matching_loads = []
NewMatchingLoads == <<>>

search_loads(loads, criteria) ==
  TopFive(SortByScore(AppendMatches(NewMatchingLoads, loads, criteria)))

\* a matcher that writes the score fields into the loads of self.loads
LoadsEnhancedInPlace(loads, criteria) ==
  [i \in 1..Len(loads) |-> EnhancedLoad(loads[i], criteria)]

\* self.loads when search_loads returns: the loop reads the loads and
\* builds new dicts, it assigns to no load and does not reorder the list
LoadsAfterSearch(loads, criteria) == loads

(***************************************************************************)
(* Inputs of the matcher                                                   *)
(***************************************************************************)
EmptyDict == <<>>

EquipmentTypes == {<<"d", "v">>, <<"D", "V">>, <<"r">>}
Origins == {<<"d", "T", "X">>, <<"d", "t", "x">>, <<"a", "G", "A">>}
Destinations == {<<"a", "G", "A">>, <<"c", "N", "C">>}
LoadRates == {210000, 185000}
LoadMiles == {0, 780, 1200}

\* load dicts without load_id; equipment_type and miles may be missing
LoadBodies ==
  {[origin |-> o, destination |-> d, loadboard_rate |-> r] @@ e @@ m :
     o \in Origins, d \in Destinations, r \in LoadRates,
     e \in {EmptyDict} \cup {("equipment_type" :> v) : v \in EquipmentTypes},
     m \in {EmptyDict} \cup {("miles" :> v) : v \in LoadMiles}}

\* the loads that fill the longer inventories
PoolLoads ==
  {[origin |-> <<"d", "T", "X">>, destination |-> <<"a", "G", "A">>,
    loadboard_rate |-> 210000, equipment_type |-> <<"d", "v">>,
    miles |-> 780],
   [origin |-> <<"a", "G", "A">>, destination |-> <<"c", "N", "C">>,
    loadboard_rate |-> 185000, equipment_type |-> <<"d", "v">>,
    miles |-> 1200]}

\* load_id is the position of the load in the inventory
WithId(body, i) == ("load_id" :> i) @@ body

Inventories ==
  {<<>>}
    \cup {<<WithId(b, 1)>> : b \in LoadBodies}
    \cup UNION {{[i \in 1..n |-> WithId(kinds[i], i)] :
                   kinds \in [1..n -> PoolLoads]} : n \in 2..MaxLoads}

\* the keyword arguments of a search_loads call
Criteria ==
  {e @@ o @@ d @@ r @@ m :
     e \in {EmptyDict} \cup
           {("equipment_type" :> v) :
              v \in {<<>>, <<"D", "v">>, <<"d">>, <<"d", "v", "x">>}},
     o \in {EmptyDict} \cup
           {("origin_state" :> v) : v \in {<<"T", "X">>, <<"t", "x">>}},
     d \in {EmptyDict} \cup {("destination_state" :> v) : v \in {<<"g", "a">>}},
     r \in {EmptyDict} \cup {("min_rate" :> v) : v \in {0, 200000}},
     m \in {EmptyDict} \cup {("max_miles" :> v) : v \in {0, 1000}}}

\* the criteria of the calls made between two equal calls
RepeatCriteria ==
  {[equipment_type |-> <<"d">>, origin_state |-> <<"T", "X">>]}

NoSearch == [called |-> FALSE]

SearchCall(criteria, matching) ==
  [called |-> TRUE, criteria |-> criteria, result |-> matching]

(***************************************************************************)
(* The HTTP API of main.py                                                 *)
(*                                                                         *)
(* A JSON value is a record with its type; a string value is a sequence of *)
(* one-character strings, a float is given in tenths.                      *)
(***************************************************************************)
API_KEY == "freight-broker-key-2025-secure"

\* the X-API-Key header of a request
NoHeader == [given |-> FALSE]
HeaderOf(key) == [given |-> TRUE, value |-> key]
Headers == {NoHeader} \cup {HeaderOf(k) : k \in {API_KEY, "wrong-key", ""}}

\* variant: any key that is sent is let through
verify_api_key_any(x_api_key) == IF ~x_api_key.given THEN 422 ELSE 200

\* the dependency verify_api_key: 422 when the required header is missing,
\* 401 when it differs from API_KEY, 200 when the handler may run
verify_api_key(x_api_key) ==
  IF ~x_api_key.given THEN 422
  ELSE IF x_api_key.value # API_KEY THEN 401
  ELSE 200

JNull == [type |-> "null"]
JInt(n) == [type |-> "int", value |-> n]
JFloat(t) == [type |-> "float", tenths |-> t]
JStr(str) == [type |-> "str", chars |-> str]
JList == [type |-> "list"]

Digits == <<"0", "1", "2", "3", "4", "5", "6", "7", "8", "9">>

IsDigit(ch) == \E n \in 1..10 : Digits[n] = ch

DigitValue(ch) == (CHOOSE n \in 1..10 : Digits[n] = ch) - 1

\* re.sub(r'[^\d.]', '', value): keep only digits and decimal points
KeepDigitsAndDots(str) == SelectSeq(str, LAMBDA ch : IsDigit(ch) \/ ch = ".")

\* the value of a string of digits, 0 for the empty string
RECURSIVE DecimalValue(_)
DecimalValue(digits) ==
  IF digits = <<>> THEN 0
  ELSE 10 * DecimalValue(SubSeq(digits, 1, Len(digits) - 1))
         + DigitValue(digits[Len(digits)])

\* float(str) raises ValueError: more than one point, or no digit
FloatFails(str) ==
  \/ Cardinality({i \in 1..Len(str) : str[i] = "."}) > 1
  \/ \A i \in 1..Len(str) : str[i] = "."

\* int(float(str)) of a string of digits with at most one point
IntOfFloatString(str) ==
  LET points == {i \in 1..Len(str) : str[i] = "."}
      whole == IF points = {} THEN str
               ELSE SubSeq(str, 1, (CHOOSE i \in points : TRUE) - 1)
  IN  DecimalValue(whole)

\* int(x) of a float given in tenths: truncation towards zero
IntOfTenths(t) == IF t >= 0 THEN t \div 10 ELSE -((-t) \div 10)

safe_int_convert(value) ==
  IF value.type = "null" THEN 0
  ELSE IF value.type = "int" THEN value.value
  ELSE IF value.type = "float" THEN IntOfTenths(value.tenths)
  ELSE IF value.type = "str"
  THEN LET kept == KeepDigitsAndDots(Lower(value.chars))
       IN  IF kept # <<>> /\ ~FloatFails(kept) THEN IntOfFloatString(kept)
           ELSE 0
  ELSE 0

\* revenue is an Optional[int] of the request model
safe_revenue_convert(value) ==
  IF value.type = "null" THEN JNull ELSE JInt(value.value)

\* str.strip() for blanks
RECURSIVE Strip(_)
Strip(str) ==
  IF str = <<>> THEN str
  ELSE IF Head(str) = " " THEN Strip(Tail(str))
  ELSE IF str[Len(str)] = " " THEN Strip(SubSeq(str, 1, Len(str) - 1))
  ELSE str

\* str.title(): a letter that follows no letter is upper-cased, every other
\* letter is lower-cased
Title(str) ==
  [i \in 1..Len(str) |->
     IF i = 1 \/ str[i - 1] \notin Chars THEN UpperChar(str[i])
     ELSE LowerChar(str[i])]

Unknown == <<"U", "n", "k", "n", "o", "w", "n">>
Positive == <<"P", "o", "s", "i", "t", "i", "v", "e">>
Negative == <<"N", "e", "g", "a", "t", "i", "v", "e">>
Neutral == <<"N", "e", "u", "t", "r", "a", "l">>

PositiveWords ==
  {<<"p", "o", "s", "i", "t", "i", "v", "e">>, <<"p", "o", "s">>,
   <<"g", "o", "o", "d">>, <<"h", "a", "p", "p", "y">>}

NegativeWords ==
  {<<"n", "e", "g", "a", "t", "i", "v", "e">>, <<"n", "e", "g">>,
   <<"b", "a", "d">>, <<"u", "n", "h", "a", "p", "p", "y">>}

NeutralWords ==
  {<<"n", "e", "u", "t", "r", "a", "l">>, <<"n", "e", "u", "t">>,
   <<"o", "k">>, <<"n", "o", "r", "m", "a", "l">>}

normalize_sentiment(value) ==
  IF value = <<>> THEN Unknown
  ELSE LET sentiment_lower == Strip(Lower(value))
       IN  IF sentiment_lower \in PositiveWords THEN Positive
           ELSE IF sentiment_lower \in NegativeWords THEN Negative
           ELSE IF sentiment_lower \in NeutralWords THEN Neutral
           ELSE Title(value)

OfferAccepted == <<"O", "f", "f", "e", "r", " ", "a", "c", "c", "e", "p", "t", "e", "d">>
RateRejected == <<"R", "a", "t", "e", " ", "R", "e", "j", "e", "c", "t", "e", "d">>
NoLoadsFound == <<"N", "o", " ", "L", "o", "a", "d", "s", " ", "F", "o", "u", "n", "d">>
EligibilityFailed == <<"E", "l", "i", "g", "i", "b", "i", "l", "i", "t", "y", " ", "F", "a", "i", "l", "e", "d">>

normalize_outcome(value) ==
  IF value = <<>> THEN Unknown
  ELSE LET outcome_lower == Strip(Lower(value))
           has(word) == StrIn(word, outcome_lower)
       IN  IF has(<<"a", "c", "c", "e", "p", "t">>) \/ has(<<"b", "o", "o", "k">>)
                \/ has(<<"s", "u", "c", "c", "e", "s", "s">>)
           THEN OfferAccepted
           ELSE IF has(<<"r", "e", "j", "e", "c", "t">>) \/ has(<<"d", "e", "c", "l", "i", "n", "e">>)
           THEN RateRejected
           ELSE IF has(<<"n", "o", " ", "l", "o", "a", "d">>) \/ has(<<"n", "o", "t", " ", "f", "o", "u", "n", "d">>)
           THEN NoLoadsFound
           ELSE IF has(<<"f", "a", "i", "l">>) \/ has(<<"i", "n", "e", "l", "i", "g", "i", "b", "l", "e">>)
           THEN EligibilityFailed
           ELSE Title(value)

\* truth value of an optional string or integer field of the request
Falsy(value) ==
  \/ value.type = "null"
  \/ value.type = "str" /\ value.chars = <<>>
  \/ value.type = "int" /\ value.value = 0

\* processed_negotiations of receive_call_data
ProcessedNegotiations(value) ==
  IF value.type = "null" THEN JNull
  ELSE IF value.type = "int" THEN value
  ELSE JInt(safe_int_convert(value))

\* the processed values of a request body
ProcessedValues(body) ==
  [duration |-> IF Falsy(body.duration) THEN JInt(0) ELSE body.duration,
   revenue |-> safe_revenue_convert(body.revenue),
   negotiations |-> ProcessedNegotiations(body.negotiations),
   sentiment |-> IF Falsy(body.sentiment) THEN Unknown
                 ELSE normalize_sentiment(body.sentiment.chars),
   outcome |-> IF Falsy(body.outcome) THEN Unknown
               ELSE normalize_outcome(body.outcome.chars)]

\* the row that INSERT OR REPLACE writes (the timestamp is left out)
RowOf(body) ==
  ("transcript" :> body.transcript) @@ ProcessedValues(body)

\* INSERT OR REPLACE: call_id is UNIQUE, the row of a call_id is replaced
InsertOrReplace(table, call_id, row) ==
  [id \in DOMAIN table \cup {call_id} |->
     IF id = call_id THEN row ELSE table[id]]

\* a table with no row
EmptyTable == <<>>

CallIds == {"call-1", "call-2"}

NegotiationsValues ==
  {JNull, JInt(0), JInt(2), JFloat(25), JFloat(-25), JList,
   JStr(<<>>), JStr(<<"3", " ", "x">>), JStr(<<"2", ".", "5">>),
   JStr(<<"1", ".", "2", ".", "3">>), JStr(<<"n", "o">>)}

SentimentValues ==
  {JNull, JStr(<<>>), JStr(<<"P", "O", "S">>), JStr(<<" ", "o", "k">>),
   JStr(<<"s", "o", " ", "s", "o">>)}

OutcomeValues ==
  {JNull, JStr(<<"B", "o", "o", "k", "e", "d">>),
   JStr(<<"n", "o", " ", "l", "o", "a", "d", "s">>)}

DurationValues == {JNull, JInt(0), JInt(420)}

RevenueValues == {JNull, JInt(2800)}

\* the body of the demonstration request, for a call_id
DemoBody(id) ==
  [call_id |-> id, transcript |-> JNull, duration |-> JInt(420),
   sentiment |-> JStr(Positive), outcome |-> JStr(OfferAccepted),
   revenue |-> JInt(2800), negotiations |-> JNull]

\* the JSON bodies of POST /call-data that pass the request model: the
\* demonstration request with one field changed
CallDataBodies ==
  UNION {{[DemoBody(id) EXCEPT !.duration = d] : d \in DurationValues}
           \cup {[DemoBody(id) EXCEPT !.sentiment = v] : v \in SentimentValues}
           \cup {[DemoBody(id) EXCEPT !.outcome = o] : o \in OutcomeValues}
           \cup {[DemoBody(id) EXCEPT !.revenue = r] : r \in RevenueValues}
           \cup {[DemoBody(id) EXCEPT !.negotiations = n] :
                   n \in NegotiationsValues} : id \in CallIds}

NoRequest == [endpoint |-> "none", status |-> 0]

\* the response of a request the dependency rejected
Rejected(endpoint, x_api_key, status) ==
  [endpoint |-> endpoint, header |-> x_api_key, status |-> status]

\* no call made yet
NoCall == [called |-> FALSE]

\* the arguments of an evaluate_offer call
CallArgs(load_rate, carrier_offer, negotiation_round, carrier_history) ==
  [called |-> TRUE, load_rate |-> load_rate, carrier_offer |-> carrier_offer,
   negotiation_round |-> negotiation_round,
   carrier_history |-> carrier_history]

(***************************************************************************)
(* Carrier verification and the inbound call workflow                      *)
(***************************************************************************)

\* re.sub(r'[^0-9]', '', mc_number)
CleanMc(mc_number) == SelectSeq(mc_number, IsDigit)

\* the outcomes of the request to the SAFER service: a response with its
\* status code (and, for 200, whether the page says "Record Not Found"),
\* an httpx.RequestError, or any other exception
StatusOutcome(code, not_found) ==
  [kind |-> "response", status_code |-> code, record_not_found |-> not_found]

RequestError == [kind |-> "RequestError"]
OtherError == [kind |-> "Exception"]

RequestOutcomes ==
  {StatusOutcome(200, TRUE), StatusOutcome(200, FALSE),
   StatusOutcome(404, FALSE), StatusOutcome(500, FALSE), RequestError,
   OtherError}

InvalidFormat(mc_number) ==
  [valid |-> FALSE, error |-> "Invalid MC number format",
   mc_number |-> mc_number]

ServiceUnavailable(mc_number) ==
  [valid |-> FALSE, error |-> "FMCSA service unavailable",
   mc_number |-> mc_number]

DemoCarriers == {<<"1", "2", "3", "4", "5", "6">>, <<"6", "5", "4", "3", "2", "1">>, <<"1", "1", "1", "1", "1", "1">>}

EvenDigits == {"0", "2", "4", "6", "8"}

_fallback_verification(clean_mc) ==
  IF clean_mc \in DemoCarriers
  THEN [valid |-> TRUE, mc_number |-> <<"M", "C", "-">> \o clean_mc,
        company_name |-> <<"T", "e", "s", "t", " ", "C", "a", "r", "r", "i", "e", "r", " ">> \o clean_mc,
        operating_status |-> "ACTIVE", out_of_service_date |-> JNull,
        power_units |-> 5, drivers |-> 8, safety_rating |-> "SATISFACTORY",
        insurance_required |-> "750000", insurance_on_file |-> TRUE]
  ELSE IF Head(clean_mc) = "1" \/ clean_mc[Len(clean_mc)] \in EvenDigits
  THEN [valid |-> TRUE, mc_number |-> <<"M", "C", "-">> \o clean_mc,
        company_name |-> <<"D", "e", "m", "o", " ", "C", "a", "r", "r", "i", "e", "r", " ">> \o clean_mc,
        operating_status |-> "ACTIVE", safety_rating |-> "SATISFACTORY",
        insurance_on_file |-> TRUE,
        note |-> "Demo mode - using fallback verification"]
  ELSE [valid |-> FALSE, mc_number |-> <<"M", "C", "-">> \o clean_mc,
        error |-> "Carrier not found or inactive",
        operating_status |-> "INACTIVE"]

\* a request is sent only for a number of at least 6 digits
RequestSent(mc_number) == Len(CleanMc(mc_number)) >= 6

\* variant: a 404 of the service makes the carrier invalid
verify_mc_number_trusting_404(mc_number, outcome) ==
  LET clean_mc == CleanMc(mc_number)
  IN  IF Len(clean_mc) < 6 THEN InvalidFormat(mc_number)
      ELSE IF outcome.kind = "Exception" THEN ServiceUnavailable(mc_number)
      ELSE IF outcome.kind = "response" /\ outcome.status_code = 404
      THEN [valid |-> FALSE, mc_number |-> <<"M", "C", "-">> \o clean_mc,
            error |-> "Carrier not found or inactive",
            operating_status |-> "INACTIVE"]
      ELSE _fallback_verification(clean_mc)

\* FMCSAService.verify_mc_number, for an outcome of the request
verify_mc_number(mc_number, outcome) ==
  LET clean_mc == CleanMc(mc_number)
  IN  IF Len(clean_mc) < 6 THEN InvalidFormat(mc_number)
      ELSE IF outcome.kind = "response"
      THEN IF outcome.status_code = 200
           THEN IF outcome.record_not_found
                THEN _fallback_verification(clean_mc)
                ELSE _fallback_verification(clean_mc)
           ELSE IF outcome.status_code = 404
           THEN _fallback_verification(clean_mc)
           ELSE _fallback_verification(clean_mc)
      ELSE IF outcome.kind = "RequestError"
      THEN _fallback_verification(clean_mc)
      ELSE ServiceUnavailable(mc_number)

McNumbers ==
  {<<"1", "2", "3", "4", "5", "6">>,
   <<"6", "5", "4", "3", "2", "1">>,
   <<"M", "C", "-", "1", "1", "1", "1", "1", "1">>,
   <<"1", "2", "3", "4", "5">>,
   <<>>,
   <<"M", "C", " ", "1", "0", "0", "0", "0", "3">>,
   <<"2", "0", "0", "0", "0", "2">>,
   <<"2", "0", "0", "0", "0", "3">>,
   <<"2", "0", "0", "0", "0", "3", "1">>,
   <<"1", "-", "2", "-", "3">>}

\* services.verify_carrier: the mock test is on the first character
verify_carrier(mc_number) ==
  IF mc_number # <<>> /\ Head(mc_number) = "1"
  THEN [mc_number |-> mc_number, status |-> "active", authorized |-> TRUE]
  ELSE [mc_number |-> mc_number, status |-> "inactive",
        authorized |-> FALSE]

\* an exception that leaves a function
Raised(exception, key) == [raised |-> exception, key |-> key]

\* the loads whose equipment_type contains the caller's, lower-cased
InboundMatches(loads, equipment_type) ==
  SelectSeq(loads,
            LAMBDA load :
              StrIn(equipment_type,
                    Lower(DictGet(load, "equipment_type", <<>>))))

\* steps 2 and 3 of process_inbound_call, on the result built so far
MatchAndPresent(res, loads, equipment_type) ==
  LET matching_loads == InboundMatches(loads, equipment_type)
      matched ==
        [res EXCEPT !.steps_completed = @ \o <<"load_matching">>]
          @@ [matching_loads |-> matching_loads,
              load_count |-> Len(matching_loads)]
  IN  IF matching_loads = <<>>
      THEN [matched EXCEPT !.status = "no_matches"]
             @@ [message |-> "No loads available for your equipment type"]
      ELSE [matched EXCEPT
              !.status = "ready_for_presentation",
              !.next_action = "present_loads",
              !.steps_completed = @ \o <<"load_preparation">>]

\* HappyRobotService.process_inbound_call: the returned result, or the
\* exception that leaves it
process_inbound_call(data, loads) ==
  LET mc_number == DictGet(data, "mc_number", <<>>)
      equipment_type == Lower(DictGet(data, "equipment_type", <<>>))
      started == [call_id |-> DictGet(data, "call_id", "none"),
                  status |-> "processing", steps_completed |-> <<>>,
                  next_action |-> "none"]
  IN  IF mc_number # <<>>
      THEN LET verification == verify_carrier(mc_number)
           IN  IF "valid" \notin DOMAIN verification
               THEN Raised("KeyError", "valid")
               ELSE LET verified ==
                          [started EXCEPT
                             !.steps_completed = <<"carrier_verification">>]
                            @@ [carrier_verified |-> verification.valid]
                    IN  IF ~verification.valid
                        THEN [verified EXCEPT !.status = "rejected"]
                               @@ [reason |-> "Carrier verification failed"]
                        ELSE MatchAndPresent(verified, loads, equipment_type)
      ELSE MatchAndPresent(started, loads, equipment_type)

\* the call data of an inbound call: the MC number and the equipment type
\* may be missing
InboundCalls ==
  {[call_id |-> "call-1"] @@ m @@ t :
     m \in {EmptyDict} \cup {("mc_number" :> v) : v \in McNumbers},
     t \in {EmptyDict} \cup
           {("equipment_type" :> v) : v \in {<<"D", "v">>, <<"x">>}}}

(***************************************************************************)
(* The HappyRobot webhooks (src/app/happyrobot_webhooks.py)                *)
(*                                                                         *)
(* call_data_store maps a call_id to the entry of the call, a dict.  A     *)
(* handler that stores data reads the entry, merges its fields into a new  *)
(* dict and assigns it.  The handlers are coroutines on one event loop: a  *)
(* handler runs without interruption except where it awaits.  The only     *)
(* await of a handler body is the carrier verification of line 56, which   *)
(* suspends when the request to the SAFER service is sent.                 *)
(* datetime.now() is the position of the handler in the order of           *)
(* completion; the uuid of a confirmation number is that same fresh        *)
(* number.  The response_message texts are left out of the responses.      *)
(***************************************************************************)

\* call_data_store.get(call_id, {})
EntryOf(store, call_id) == DictGet(store, call_id, EmptyDict)

\* {**entry, **fields}
Merge(entry, fields) == fields @@ entry

\* call_data_store[call_id] = entry
Put(store, call_id, entry) == (call_id :> entry) @@ store

\* `if request.call_id:` -- None and the empty string are falsy
NoCallId == ""

\* what a handler hands back: the store it leaves, the fields it wrote into
\* the entry of its call_id, and the response
Handled(store, written, resp) ==
  [store |-> store, written |-> written, response |-> resp]

\* `except Exception as e: raise HTTPException(status_code=500, ...)`; the
\* detail ends with str(e)
Failed500(store, prefix, exception) ==
  Handled(store, EmptyDict,
          [status |-> 500, detail_prefix |-> prefix, caught |-> exception])

\* the store after `if call_id: call_data_store[call_id] = {**entry, ...}`
Stored(store, entry, call_id, fields) ==
  IF call_id # NoCallId THEN Put(store, call_id, Merge(entry, fields))
  ELSE store

\* the fields written under `if call_id:`
Written(call_id, fields) == IF call_id # NoCallId THEN fields ELSE EmptyDict

\* lines 59-85 of verify_carrier_webhook, after the await of line 56; entry
\* is what call_data_store.get(request.call_id, {}) of line 61 gives
verify_carrier_webhook(request, verification_result, store, entry, now) ==
  LET fields == [mc_number |-> request.mc_number,
                 verification_result |-> verification_result,
                 timestamp |-> now]
  IN  Handled(Stored(store, entry, request.call_id, fields),
              Written(request.call_id, fields),
              [status |-> 200, success |-> verification_result.valid,
               verification |-> verification_result,
               next_action |-> IF verification_result.valid
                               THEN "search_loads"
                               ELSE "retry_verification"])

\* the entry that a resumed verify-carrier handler would merge into if it
\* had read it before its await
EntryAtSuspension(store, p) == p.entry_at_suspension

\* line 61 runs after the await: the handler reads the entry as it is when
\* it resumes
EntryAtWrite(store, p) == EntryOf(store, p.request.call_id)

\* load_details of search_loads_webhook
LoadDetails(best_load) ==
  [load_id |-> best_load.load_id, rate |-> best_load.loadboard_rate,
   miles |-> DictGet(best_load, "miles", JNull),
   equipment |-> DictGet(best_load, "equipment_type", JNull)]

search_loads_webhook(request, store, loads, now) ==
  LET matching_loads == search_loads(loads, request.criteria)
      fields == [equipment_type |-> request.criteria.equipment_type,
                 search_criteria |-> request,
                 matching_loads |-> matching_loads,
                 load_count |-> Len(matching_loads),
                 timestamp |-> now]
  IN  Handled(Stored(store, EntryOf(store, request.call_id),
                     request.call_id, fields),
              Written(request.call_id, fields),
              [status |-> 200, success |-> Len(matching_loads) > 0,
               load_count |-> Len(matching_loads),
               matching_loads |-> matching_loads,
               next_action |-> IF matching_loads # <<>>
                               THEN "present_load"
                               ELSE "take_contact_info"]
                @@ (IF matching_loads # <<>>
                    THEN [recommended_load |->
                            LoadDetails(matching_loads[1])]
                    ELSE EmptyDict))

\* negotiate_rate of enhanced_services: the round goes through unchanged
negotiate_rate(load_rate, carrier_offer, negotiation_round, carrier_history, fp) ==
  evaluate_offer(load_rate, carrier_offer, negotiation_round,
                 carrier_history, fp)

\* negotiation_round: Optional[int] = Field(1, ...)
RequestRound(request) == DictGet(request, "negotiation_round", 1)

\* the part of the response that depends on the decision
DecisionFields(negotiation_result, negotiation_round) ==
  IF negotiation_result.decision = "accept"
  THEN [final_rate |-> negotiation_result.final_rate,
        next_action |-> "confirm_load"]
  ELSE IF negotiation_result.decision = "counter_offer"
  THEN [counter_rate |-> negotiation_result.counter_rate,
        negotiation_round |->
          DictGet(negotiation_result, "negotiation_round",
                  negotiation_round + 1),
        next_action |-> "await_response"]
  ELSE IF negotiation_result.decision = "transfer"
  THEN [next_action |-> "transfer_call"]
  ELSE [next_action |-> "end_call"]

\* variant: every call starts the negotiations list anew
NegotiationsStartedAnew(entry) == <<>>

\* call_data_store.get(call_id, {}).get("negotiations", [])
NegotiationsOf(entry) == DictGet(entry, "negotiations", <<>>)

negotiate_rate_webhook(request, store, loads, now, fp) ==
  LET found == {i \in DOMAIN loads : loads[i].load_id = request.load_id}
  IN  IF found = {}
      THEN \* the HTTPException(404) is raised inside the try block and is
           \* an Exception: the handler of line 239 catches it
           Failed500(store, "Negotiation failed",
                     [status_code |-> 404, detail |-> "Load not found"])
             @@ [evaluated |-> NoCall]
      ELSE
        LET target_load == loads[CHOOSE i \in found : \A j \in found : i <= j]
            entry == EntryOf(store, request.call_id)
            carrier_history ==
              IF request.mc_number # <<>> /\ request.call_id # NoCallId
              THEN [reliability_score |-> 85]
              ELSE None
            negotiation_round == RequestRound(request)
            negotiation_result ==
              negotiate_rate(target_load.loadboard_rate,
                             request.carrier_offer, negotiation_round,
                             carrier_history, fp)
            negotiations ==
              Append(NegotiationsOf(entry),
                     [round |-> negotiation_round,
                      carrier_offer |-> request.carrier_offer,
                      result |-> negotiation_result,
                      timestamp |-> now])
            fields == [negotiations |-> negotiations,
                       latest_negotiation |-> negotiation_result]
        IN  Handled(Stored(store, entry, request.call_id, fields),
                    Written(request.call_id, fields),
                    [status |-> 200, success |-> TRUE,
                     decision |-> negotiation_result.decision,
                     negotiation_complete |->
                       negotiation_result.negotiation_complete]
                      @@ DecisionFields(negotiation_result,
                                        negotiation_round))
              @@ [evaluated |->
                    CallArgs(target_load.loadboard_rate,
                             request.carrier_offer, negotiation_round,
                             carrier_history)]

confirm_load_webhook(request, store, now) ==
  LET fields == [status |-> "load_assigned", confirmation_number |-> now,
                 final_rate |-> request.final_rate,
                 assignment_time |-> now]
  IN  Handled(Stored(store, EntryOf(store, request.call_id),
                     request.call_id, fields),
              Written(request.call_id, fields),
              [status |-> 200, success |-> TRUE,
               confirmation_number |-> now, load_assigned |-> TRUE,
               next_action |-> "transfer_to_dispatch"])

positive_words ==
  {<<"g", "r", "e", "a", "t">>,
   <<"p", "e", "r", "f", "e", "c", "t">>,
   <<"e", "x", "c", "e", "l", "l", "e", "n", "t">>,
   <<"g", "o", "o", "d">>,
   <<"y", "e", "s">>,
   <<"s", "u", "r", "e">>,
   <<"s", "o", "u", "n", "d", "s", " ", "g", "o", "o", "d">>}

negative_words ==
  {<<"n", "o">>,
   <<"c", "a", "n", "'", "t">>,
   <<"w", "o", "n", "'", "t">>,
   <<"d", "i", "s", "a", "p", "p", "o", "i", "n", "t", "e", "d">>,
   <<"f", "r", "u", "s", "t", "r", "a", "t", "e", "d">>,
   <<"p", "r", "o", "b", "l", "e", "m">>}

\* sum(1 for word in words if word in transcript_lower)
WordCount(words, transcript_lower) ==
  Cardinality({word \in words : StrIn(word, transcript_lower)})

Classification(entry) ==
  IF DictGet(entry, "status", "unknown") = "load_assigned"
  THEN "successful_booking"
  ELSE IF "negotiations" \in DOMAIN entry /\ Len(entry.negotiations) > 0
  THEN "negotiation_attempted"
  ELSE IF /\ "verification_result" \in DOMAIN entry
          /\ entry.verification_result.valid = FALSE
  THEN "verification_failed"
  ELSE "no_suitable_loads"

extract_call_data_webhook(request, store, now) ==
  LET entry == EntryOf(store, request.call_id)
      transcript_lower == Lower(request.transcript)
      positive_count == WordCount(positive_words, transcript_lower)
      negative_count == WordCount(negative_words, transcript_lower)
      extracted_data ==
        [call_id |-> request.call_id, duration |-> request.duration,
         outcome |-> request.outcome,
         transcript_length |-> Len(request.transcript),
         carrier_info |-> DictGet(entry, "verification_result", EmptyDict),
         loads_discussed |-> DictGet(entry, "load_count", 0),
         negotiations |-> Len(DictGet(entry, "negotiations", <<>>)),
         final_outcome |-> DictGet(entry, "status", "unknown"),
         extracted_at |-> now,
         sentiment |-> IF positive_count > negative_count THEN "positive"
                       ELSE IF negative_count > positive_count
                       THEN "negative"
                       ELSE "neutral",
         sentiment_score |-> positive_count - negative_count,
         classification |-> Classification(entry)]
      fields == [extracted_data |-> extracted_data,
                 processing_complete |-> TRUE]
  IN  \* the entry is assigned whatever the call_id is
      Handled(Put(store, request.call_id, Merge(entry, fields)), fields,
              [status |-> 200, success |-> TRUE,
               extracted_data |-> extracted_data])

\* GET /call-analytics/{call_id}
get_call_analytics(call_id, store) ==
  IF call_id \notin DOMAIN store
  THEN [status |-> 404, detail |-> "Call data not found"]
  ELSE [status |-> 200, success |-> TRUE, call_data |-> store[call_id]]

\* the requests of the modelled sessions
HookCallIds == {"call-1", NoCallId}

VerifyRequests ==
  {[mc_number |-> <<"1", "2", "3", "4", "5", "6">>, call_id |-> "call-1"],
   [mc_number |-> <<"1", "2", "3", "4", "5">>, call_id |-> "call-1"],
   [mc_number |-> <<"M", "C", " ", "2", "0", "0", "0", "0", "3">>, call_id |-> NoCallId]}

\* the outcomes of the SAFER request met by a resumed handler
HookOutcomes == {StatusOutcome(404, FALSE), OtherError}

SearchRequests ==
  {[criteria |-> [equipment_type |-> <<"D", "v">>], call_id |-> "call-1"],
   [criteria |-> [equipment_type |-> <<"r">>, max_miles |-> 1000],
    call_id |-> NoCallId]}

UnknownLoadId == 9

\* the first offer of a call, and that request with one field changed
DemoOffer ==
  [load_id |-> 1, carrier_offer |-> 225000, mc_number |-> <<>>,
   call_id |-> "call-1"]

NegotiateRequests ==
  {DemoOffer,
   [DemoOffer EXCEPT !.load_id = UnknownLoadId],
   [DemoOffer EXCEPT !.carrier_offer = 215000, !.mc_number = <<"1", "2", "3", "4", "5", "6">>],
   [DemoOffer EXCEPT !.call_id = NoCallId],
   ("negotiation_round" :> 2) @@ DemoOffer}

ConfirmRequests ==
  {[call_id |-> c, load_id |-> 1, final_rate |-> 215000, mc_number |-> <<"1", "2", "3", "4", "5", "6">>] :
     c \in HookCallIds}

ExtractRequests ==
  {[call_id |-> "call-1", transcript |-> t, duration |-> 120,
    outcome |-> "booked"] : t \in {<<"Y", "e", "s", ",", " ", "s", "o", "u", "n", "d", "s", " ", "g", "o", "o", "d">>, <<"N", "o", " ", "p", "r", "o", "b", "l", "e", "m">>}}

(***************************************************************************)
(* State: one negotiation over one load.  The engine keeps no state; the   *)
(* caller holds the posted rate, the carrier history and the round.        *)
(***************************************************************************)
VARIABLES
  posted_rate,    \* the load's loadboard_rate (cents), > 0
  history,        \* carrier_history handed to every call
  next_round,     \* negotiation_round the session passes on its next call
  calls,          \* evaluate_offer calls made by the session so far
  in_session,     \* TRUE while every call followed the reported round
  last,           \* arguments of the last evaluate_offer call
  result,         \* what the last evaluate_offer call returned
  broker_before,  \* the broker's figure standing before the last call
  offer_before    \* the carrier's offer of the call before the last one

negotiation_vars ==
  <<posted_rate, history, next_round, calls, in_session, last, result,
    broker_before, offer_before>>

matcher_vars == <<inventory, search, first, searches>>

api_vars == <<call_data, response>>

service_vars == <<carrier, inbound>>

hook_vars == <<call_data_store, pending, completed, requests, hook>>

vars ==
  <<negotiation_vars, matcher_vars, engine, api_vars, service_vars,
    hook_vars>>

NoResult == [decision |-> "none"]

\* NegotiationEngine.__init__
NewEngine ==
  [max_negotiations |-> 3,
   negotiation_strategies |-> <<"aggressive", "balanced", "accommodating">>]

\* the negotiation of a load at posted rate l with carrier history h, not
\* yet started
NegotiationInit(l, h) ==
  /\ posted_rate = l
  /\ history = h
  /\ next_round = 1
  /\ calls = 0
  /\ in_session = TRUE
  /\ last = NoCall
  /\ result = NoResult
  /\ broker_before = l
  /\ offer_before = 0
  /\ engine = NewEngine

\* the API before its first request, the call_data table empty
ApiInit ==
  /\ call_data = EmptyTable
  /\ response = NoRequest

ServiceInit ==
  /\ carrier = NoCall
  /\ inbound = NoCall

\* call_data_store: Dict[str, Dict] = {}
HookInit ==
  /\ call_data_store = EmptyDict
  /\ pending = <<>>
  /\ completed = <<>>
  /\ requests = 0
  /\ hook = NoRequest

\* a LoadMatchingService over the inventory loads, not yet called
MatcherInit(loads) ==
  /\ inventory = loads
  /\ search = NoSearch
  /\ first = NoSearch
  /\ searches = 0

Init ==
  /\ \E l \in PostedRates, h \in Histories : NegotiationInit(l, h)
  /\ MatcherInit(<<>>)
  /\ ApiInit
  /\ ServiceInit
  /\ HookInit

\* The caller drives the negotiation round by round: the first call passes
\* round 1, every later call follows a counter-offer, passes the
\* negotiation_round that counter-offer reported and the carrier's next
\* offer.
SessionOffer(carrier_offer, fp) ==
  /\ in_session
  /\ calls < MaxCalls
  /\ calls = 0 \/ result.decision = "counter_offer"
  /\ LET res == evaluate_offer(posted_rate, carrier_offer, next_round,
                               history, fp)
     IN  /\ result' = res
         /\ next_round' = IF res.decision = "counter_offer"
                          THEN res.negotiation_round ELSE next_round
  /\ last' = CallArgs(posted_rate, carrier_offer, next_round, history)
  /\ calls' = calls + 1
  /\ broker_before' = IF calls = 0 THEN posted_rate ELSE result.counter_rate
  /\ offer_before' = IF calls = 0 THEN 0 ELSE last.carrier_offer
  /\ UNCHANGED <<posted_rate, history, in_session>>
  /\ UNCHANGED <<matcher_vars, engine, api_vars, service_vars, hook_vars>>

\* A caller that supplies the round itself on its one call (negotiate_rate
\* is called with whatever negotiation_round the request carries).
DirectCall(carrier_offer, negotiation_round, fp) ==
  /\ last = NoCall
  /\ result' = evaluate_offer(posted_rate, carrier_offer, negotiation_round,
                              history, fp)
  /\ last' = CallArgs(posted_rate, carrier_offer, negotiation_round, history)
  /\ next_round' = negotiation_round
  /\ calls' = 0
  /\ in_session' = FALSE
  /\ broker_before' = posted_rate
  /\ offer_before' = 0
  /\ UNCHANGED <<posted_rate, history>>
  /\ UNCHANGED <<matcher_vars, engine, api_vars, service_vars, hook_vars>>

Next ==
  \/ \E o \in Offers(posted_rate), fp \in BOOLEAN : SessionOffer(o, fp)
  \/ \E o \in Offers(posted_rate), r \in 1..MaxRoundArg, fp \in BOOLEAN :
       DirectCall(o, r, fp)

Spec == Init /\ [][Next]_vars

\* One search_loads call on the inventory.
Search(criteria) ==
  /\ searches < MaxSearches
  /\ searches' = searches + 1
  /\ search' = SearchCall(criteria, search_loads(inventory, criteria))
  /\ first' = IF first.called THEN first ELSE search'
  /\ inventory' = LoadsAfterSearch(inventory, criteria)
  /\ UNCHANGED <<negotiation_vars, engine, api_vars, service_vars,
                 hook_vars>>

InitMatch ==
  /\ NegotiationInit(200000, None)
  /\ \E loads \in Inventories : MatcherInit(loads)
  /\ ApiInit
  /\ ServiceInit
  /\ HookInit

\* One call with any criteria on any inventory.
NextMatch == searches = 0 /\ \E criteria \in Criteria : Search(criteria)

SpecMatch == InitMatch /\ [][NextMatch]_vars

\* Repeated calls on one inventory: the first call takes any criteria; the
\* calls after it take one of RepeatCriteria and the criteria of the first
\* call in turn.
RepeatInventories == {loads \in Inventories : Len(loads) <= 3}

InitRepeat ==
  /\ NegotiationInit(200000, None)
  /\ \E loads \in RepeatInventories : MatcherInit(loads)
  /\ ApiInit
  /\ ServiceInit
  /\ HookInit

NextRepeat ==
  \E criteria \in (IF searches = 0 THEN Criteria
                   ELSE IF searches % 2 = 1 THEN RepeatCriteria
                   ELSE {first.criteria}) :
    Search(criteria)

SpecRepeat == InitRepeat /\ [][NextRepeat]_vars

\* Searches and negotiation calls of one process interleaved: the engine is
\* a module-level instance and every matcher is built over the same list
\* of loads.
FrameInventories == {loads \in Inventories : Len(loads) \in 2..3}

FrameCriteria ==
  {[equipment_type |-> <<"d">>, origin_state |-> <<"T", "X">>],
   [equipment_type |-> <<"D", "v">>, min_rate |-> 200000],
   [origin_state |-> <<"T", "X">>, destination_state |-> <<"g", "a">>,
    max_miles |-> 1000]}

InitFrame ==
  /\ NegotiationInit(200000, None)
  /\ \E loads \in FrameInventories : MatcherInit(loads)
  /\ ApiInit
  /\ ServiceInit
  /\ HookInit

NextFrame ==
  \/ \E criteria \in FrameCriteria : Search(criteria)
  \/ \E o \in Offers(posted_rate), fp \in BOOLEAN : SessionOffer(o, fp)

SpecFrame == InitFrame /\ [][NextFrame]_vars

\* Requests to the API of main.py.  A request whose dependency fails is
\* answered by the framework and the handler is not entered.
RECURSIVE SumOver(_, _)
SumOver(values, ids) ==
  IF ids = {} THEN 0
  ELSE LET id == CHOOSE x \in ids : TRUE
       IN  values[id] + SumOver(values, ids \ {id})

\* GET /loads
get_loads(x_api_key) ==
  /\ response' =
       IF verify_api_key(x_api_key) # 200
       THEN Rejected("GET /loads", x_api_key, verify_api_key(x_api_key))
       ELSE [endpoint |-> "GET /loads", header |-> x_api_key, status |-> 200,
             loads |-> inventory, total_loads |-> Len(inventory)]
  /\ UNCHANGED <<call_data, negotiation_vars, matcher_vars, engine,
                 service_vars, hook_vars>>

\* POST /call-data
receive_call_data(x_api_key, body) ==
  /\ IF verify_api_key(x_api_key) # 200
     THEN /\ response' = Rejected("POST /call-data", x_api_key,
                                  verify_api_key(x_api_key))
          /\ UNCHANGED call_data
     ELSE /\ call_data' = InsertOrReplace(call_data, body.call_id, RowOf(body))
          /\ response' = [endpoint |-> "POST /call-data",
                          header |-> x_api_key, status |-> 200,
                          request |-> body, call_id |-> body.call_id,
                          processed_values |-> ProcessedValues(body)]
  /\ UNCHANGED <<negotiation_vars, matcher_vars, engine, service_vars,
                 hook_vars>>

\* GET /dashboard: the page, or 404 when the template file is missing
get_dashboard(x_api_key, template_found) ==
  /\ response' = [endpoint |-> "GET /dashboard", header |-> x_api_key,
                  status |-> IF template_found THEN 200 ELSE 404]
  /\ UNCHANGED <<call_data, negotiation_vars, matcher_vars, engine,
                 service_vars, hook_vars>>

\* GET /dashboard/api/metrics; the averages are in tenths
get_dashboard_metrics(x_api_key) ==
  LET ids == DOMAIN call_data
      total_calls == Cardinality(ids)
      revenue == [id \in ids |->
                    IF call_data[id].revenue.type = "null" THEN 0
                    ELSE call_data[id].revenue.value]
      duration == [id \in ids |-> call_data[id].duration.value]
      counted == {id \in ids : call_data[id].negotiations.type # "null"}
      negotiations == [id \in counted |-> call_data[id].negotiations.value]
      successful ==
        {id \in ids :
           \/ StrIn(<<"a", "c", "c", "e", "p", "t">>,
                    Lower(call_data[id].outcome))
           \/ StrIn(<<"b", "o", "o", "k">>, Lower(call_data[id].outcome))}
  IN  /\ response' =
           [endpoint |-> "GET /dashboard/api/metrics", header |-> x_api_key,
            status |-> 200, total_calls |-> total_calls,
            total_revenue |-> SumOver(revenue, ids),
            avg_duration |-> IF total_calls > 0
                             THEN SumOver(duration, ids) \div total_calls
                             ELSE 0,
            avg_negotiations |->
              IF counted # {}
              THEN RoundDiv(10 * SumOver(negotiations, counted),
                            Cardinality(counted))
              ELSE 0,
            success_rate |->
              IF total_calls > 0
              THEN RoundDiv(1000 * Cardinality(successful), total_calls)
              ELSE 0]
      /\ UNCHANGED <<call_data, negotiation_vars, matcher_vars, engine,
                 service_vars, hook_vars>>

\* the loads list that GET /loads returns: two loads, the first one from
\* Dallas
ApiInventories ==
  {loads \in Inventories : Len(loads) = 2 /\ loads[1].miles = 780}

InitApi ==
  /\ NegotiationInit(200000, None)
  /\ \E loads \in ApiInventories : MatcherInit(loads)
  /\ ApiInit
  /\ ServiceInit
  /\ HookInit

NextApi ==
  \/ \E x_api_key \in Headers : get_loads(x_api_key)
  \/ \E x_api_key \in Headers, body \in CallDataBodies :
       receive_call_data(x_api_key, body)
  \/ \E x_api_key \in Headers, template_found \in BOOLEAN :
       get_dashboard(x_api_key, template_found)
  \/ \E x_api_key \in Headers : get_dashboard_metrics(x_api_key)

SpecApi == InitApi /\ [][NextApi]_vars

\* One verify_mc_number call, with the outcome of its request.
VerifyMc(mc_number, outcome) ==
  /\ carrier' = [called |-> TRUE, mc_number |-> mc_number,
                 outcome |-> outcome,
                 request_sent |-> RequestSent(mc_number),
                 result |-> verify_mc_number(mc_number, outcome)]
  /\ UNCHANGED <<inbound, negotiation_vars, matcher_vars, engine, api_vars,
                 hook_vars>>

\* One process_inbound_call call on the inventory.
ProcessInboundCall(data) ==
  /\ inbound' = [called |-> TRUE, call_data |-> data,
                 outcome |-> process_inbound_call(data, inventory)]
  /\ UNCHANGED <<carrier, negotiation_vars, matcher_vars, engine, api_vars,
                 hook_vars>>

InitCarrier ==
  /\ NegotiationInit(200000, None)
  /\ \E loads \in ApiInventories : MatcherInit(loads)
  /\ ApiInit
  /\ ServiceInit
  /\ HookInit

NextCarrier ==
  \/ \E mc_number \in McNumbers, outcome \in RequestOutcomes :
       VerifyMc(mc_number, outcome)
  \/ \E data \in InboundCalls : ProcessInboundCall(data)

SpecCarrier == InitCarrier /\ [][NextCarrier]_vars

\* the record of a handler that returned or failed; received is the
\* number of handlers that had completed when its request came in
Done(endpoint, request, out, received) ==
  [endpoint |-> endpoint, call_id |-> request.call_id,
   status |-> out.response.status, written |-> out.written,
   received |-> received]

\* the answer to a request
Answer(endpoint, request, out) ==
  [endpoint |-> endpoint, request |-> request] @@ out.response
    @@ (IF "evaluated" \in DOMAIN out THEN [evaluated |-> out.evaluated]
        ELSE EmptyDict)

\* a handler that runs from its first line to its return without an await
Complete(endpoint, request, out, received) ==
  /\ call_data_store' = out.store
  /\ completed' = Append(completed, Done(endpoint, request, out, received))
  /\ hook' = Answer(endpoint, request, out)

\* the time datetime.now() gives to the handler that completes now
Now == Len(completed) + 1

Others == <<negotiation_vars, matcher_vars, engine, api_vars, service_vars>>

\* POST /verify-carrier up to the await of line 56.  With fewer than 6
\* digits verify_mc_number returns without sending a request and the
\* handler runs on to its return; otherwise it is suspended.
VerifyCarrierReceive(request) ==
  /\ requests < MaxRequests
  /\ requests' = requests + 1
  /\ IF RequestSent(request.mc_number)
     THEN /\ pending' =
               Append(pending,
                      [request |-> request, received |-> Len(completed),
                       entry_at_suspension |->
                         EntryOf(call_data_store, request.call_id)])
          /\ UNCHANGED <<call_data_store, completed, hook>>
     ELSE /\ Complete("verify-carrier", request,
                      verify_carrier_webhook(
                        request, InvalidFormat(request.mc_number),
                        call_data_store,
                        EntryOf(call_data_store, request.call_id), Now),
                      Len(completed))
          /\ UNCHANGED pending
  /\ UNCHANGED Others

\* POST /verify-carrier from the await of line 56 to the return
VerifyCarrierResume(i, outcome) ==
  /\ i \in DOMAIN pending
  /\ Complete("verify-carrier", pending[i].request,
              verify_carrier_webhook(
                pending[i].request,
                verify_mc_number(pending[i].request.mc_number, outcome),
                call_data_store, EntryAtWrite(call_data_store, pending[i]),
                Now),
              pending[i].received)
  /\ pending' = [j \in 1..(Len(pending) - 1) |->
                   IF j < i THEN pending[j] ELSE pending[j + 1]]
  /\ UNCHANGED <<requests, Others>>

\* POST /search-loads
SearchLoadsHook(request) ==
  /\ requests < MaxRequests
  /\ requests' = requests + 1
  /\ Complete("search-loads", request,
              search_loads_webhook(request, call_data_store, inventory, Now),
              Len(completed))
  /\ UNCHANGED <<pending, Others>>

\* POST /negotiate-rate
NegotiateRateHook(request, fp) ==
  /\ requests < MaxRequests
  /\ requests' = requests + 1
  /\ Complete("negotiate-rate", request,
              negotiate_rate_webhook(request, call_data_store, inventory,
                                     Now, fp),
              Len(completed))
  /\ UNCHANGED <<pending, Others>>

\* POST /confirm-load
ConfirmLoadHook(request) ==
  /\ requests < MaxRequests
  /\ requests' = requests + 1
  /\ Complete("confirm-load", request,
              confirm_load_webhook(request, call_data_store, Now),
              Len(completed))
  /\ UNCHANGED <<pending, Others>>

\* POST /extract-call-data
ExtractCallDataHook(request) ==
  /\ requests < MaxRequests
  /\ requests' = requests + 1
  /\ Complete("extract-call-data", request,
              extract_call_data_webhook(request, call_data_store, Now),
              Len(completed))
  /\ UNCHANGED <<pending, Others>>

\* GET /call-analytics/{call_id}
CallAnalyticsHook(call_id) ==
  /\ requests < MaxRequests
  /\ requests' = requests + 1
  /\ hook' = [endpoint |-> "call-analytics",
              request |-> [call_id |-> call_id]]
               @@ get_call_analytics(call_id, call_data_store)
  /\ UNCHANGED <<call_data_store, pending, completed, Others>>

\* the inventory of the webhook sessions
HookInventories == {loads \in ApiInventories : loads[2].miles = 1200}

InitHooks ==
  /\ NegotiationInit(200000, None)
  /\ \E loads \in HookInventories : MatcherInit(loads)
  /\ ApiInit
  /\ ServiceInit
  /\ HookInit

NextHooks ==
  \/ \E request \in VerifyRequests : VerifyCarrierReceive(request)
  \/ \E i \in DOMAIN pending, outcome \in HookOutcomes :
       VerifyCarrierResume(i, outcome)
  \/ \E request \in SearchRequests : SearchLoadsHook(request)
  \/ \E request \in NegotiateRequests, fp \in BOOLEAN :
       NegotiateRateHook(request, fp)
  \/ \E request \in ConfirmRequests : ConfirmLoadHook(request)
  \/ \E request \in ExtractRequests : ExtractCallDataHook(request)
  \/ CallAnalyticsHook("call-1")

SpecHooks == InitHooks /\ [][NextHooks]_vars

(***************************************************************************)
(* Properties                                                              *)
(***************************************************************************)
Min(a, b) == IF a < b THEN a ELSE b
Max(a, b) == IF a > b THEN a ELSE b

\* the relative gap delta of the last call exceeds pct / 100
DeltaAbove(pct) ==
  Abs(last.carrier_offer - last.load_rate) * 100 > pct * last.load_rate

\* C1: for every posted rate > 0, every round >= 3 and every offer with
\* delta > 0.03, evaluate returns Transfer and never Counter.
C1_TransferAtMaxRound ==
  (last.called /\ last.negotiation_round >= 3 /\ DeltaAbove(3))
    => result.decision = "transfer"

\* C2: a session that starts at round 1 and re-invokes evaluate with the
\* reported next round after each counter is complete after at most 3
\* calls, and its round never exceeds 3.
C2_SessionTerminates ==
  in_session =>
    /\ next_round <= 3
    /\ calls >= 3 => result.negotiation_complete

\* C3 (as claimed): whenever evaluate counters, the rounded counter rate is
\* strictly between the carrier's offer and the posted rate.
C3_StrictlyBetween ==
  (last.called /\ result.decision = "counter_offer") =>
    /\ Min(last.carrier_offer, last.load_rate) < result.counter_rate
    /\ result.counter_rate < Max(last.carrier_offer, last.load_rate)

\* C3 (amended): whenever evaluate counters, the rounded counter rate lies
\* between the carrier's offer and the posted rate, and strictly between
\* them when the two differ by more than 0.05 (5 cents).
C3_BetweenBeyondFiveCents ==
  (last.called /\ result.decision = "counter_offer") =>
    /\ Min(last.carrier_offer, last.load_rate) <= result.counter_rate
    /\ result.counter_rate <= Max(last.carrier_offer, last.load_rate)
    /\ Abs(last.carrier_offer - last.load_rate) > 5 =>
         /\ Min(last.carrier_offer, last.load_rate) < result.counter_rate
         /\ result.counter_rate < Max(last.carrier_offer, last.load_rate)

\* a counter whose rounding moved it, on a gap of more than 5 cents
C3_Witness ==
  /\ last.called
  /\ result.decision = "counter_offer"
  /\ last.load_rate - last.carrier_offer = 6
  /\ last.negotiation_round = 2
  /\ result.strategy_used = "aggressive"
  /\ result.counter_rate = last.load_rate - 1

\* C4: in a session, each later counter-offer lies strictly between the
\* carrier's current offer and the broker's previous counter, and while the
\* carrier's offers below the posted rate do not fall, the broker's counter
\* does not rise from one round to the next.  Stated on offers more than
\* 5 cents away from the posted rate, where rounding to the cent cannot
\* move a counter onto the offer or the posted rate.
C4_CounterNarrowsGap ==
  (/\ in_session /\ calls >= 2 /\ result.decision = "counter_offer"
   /\ Abs(last.carrier_offer - posted_rate) > 5
   /\ Abs(offer_before - posted_rate) > 5) =>
    /\ Min(last.carrier_offer, broker_before) < result.counter_rate
    /\ result.counter_rate < Max(last.carrier_offer, broker_before)
    /\ (/\ last.carrier_offer < posted_rate
        /\ offer_before < posted_rate
        /\ last.carrier_offer >= offer_before)
         => result.counter_rate <= broker_before

RateOf(res) ==
  IF res.decision = "accept" THEN res.final_rate
  ELSE IF res.decision = "counter_offer" THEN res.counter_rate
  ELSE 0

\* C7: a call with a round above 3 returns the same decision and the same
\* rate as the same call with round 3.
C7_OverflowAsAtCap ==
  (last.called /\ last.negotiation_round > 3) =>
    \E fp \in BOOLEAN :
      LET at_cap == evaluate_offer(last.load_rate, last.carrier_offer, 3,
                                   last.carrier_history, fp)
      IN  /\ at_cap.decision = result.decision
          /\ RateOf(at_cap) = RateOf(result)

\* the reliability score of a carrier history, -1 when absent
ReliabilityOf(h) ==
  IF h = None THEN -1
  ELSE IF "reliability_score" \in DOMAIN h THEN h.reliability_score
  ELSE -1

\* C8: the strategy is accommodating when reliability > 85 (85 itself and
\* an absent reliability do not qualify); otherwise balanced in round 1,
\* aggressive in round 2, accommodating from round 3 on.
C8_StrategySelection ==
  (last.called /\ result.decision = "counter_offer") =>
    result.strategy_used =
      CASE ReliabilityOf(last.carrier_history) > 85 -> "accommodating"
        [] ReliabilityOf(last.carrier_history) <= 85
             /\ last.negotiation_round = 1 -> "balanced"
        [] ReliabilityOf(last.carrier_history) <= 85
             /\ last.negotiation_round = 2 -> "aggressive"
        [] OTHER -> "accommodating"

\* reliability exactly 85 in round 2: aggressive
C8_Witness ==
  /\ last.called
  /\ result.decision = "counter_offer"
  /\ last.carrier_history = [reliability_score |-> 85]
  /\ last.negotiation_round = 2
  /\ result.strategy_used = "aggressive"

\* C9: two calls that differ only in the carrier history return the same
\* decision, the same final rate when accepted and the same next round
\* when countered.
C9_ReliabilityKeepsBranch ==
  last.called =>
    \A h \in Histories, fp \in BOOLEAN :
      LET other == evaluate_offer(last.load_rate, last.carrier_offer,
                                  last.negotiation_round, h, fp)
      IN  /\ other.decision = result.decision
          /\ result.decision = "accept"
               => other.final_rate = result.final_rate
          /\ result.decision = "counter_offer"
               => other.negotiation_round = result.negotiation_round

\* a counter whose rate does depend on the carrier history
C9_Witness ==
  /\ last.called
  /\ result.decision = "counter_offer"
  /\ \E h \in Histories :
       evaluate_offer(last.load_rate, last.carrier_offer,
                      last.negotiation_round, h, TRUE).counter_rate
         # result.counter_rate

\* 100 * f * m of the claimed formula, doubled: f is 0.20, 0.40 or 0.60 by
\* strategy, m is 1.5 in round 3 and 1 otherwise
ClaimedFactor2(strategy, round_num) ==
  (CASE strategy = "aggressive" -> 20
     [] strategy = "balanced" -> 40
     [] strategy = "accommodating" -> 60)
  * (IF round_num = 3 THEN 3 ELSE 2)

\* C10: when evaluate counters, the counter rate is
\* postedRate - (postedRate - carrierOffer) * f * m rounded to 2 decimals
\* (to the nearest cent).
C10_CounterFormula ==
  (last.called /\ result.decision = "counter_offer") =>
    LET unrounded2 ==
          2 * Fine * last.load_rate
            - (last.load_rate - last.carrier_offer)
                * ClaimedFactor2(result.strategy_used,
                                 last.negotiation_round)
    IN  Abs(2 * Fine * result.counter_rate - unrounded2) <= Fine

\* posted 2000.00, offer 1850.00, round 1, reliability 90: counter 1910.00
C10_Witness ==
  /\ last.called
  /\ last.load_rate = 200000
  /\ last.carrier_offer = 185000
  /\ last.negotiation_round = 1
  /\ last.carrier_history = [reliability_score |-> 90]
  /\ result.decision = "counter_offer"
  /\ result.counter_rate = 191000

\* C11: every outcome of evaluate carries a message and a
\* negotiation_complete flag, the flag is false exactly when the decision
\* is a counter-offer, and every counter-offer reports round + 1.
C11_OutcomeShape ==
  last.called =>
    /\ "message" \in DOMAIN result
    /\ "negotiation_complete" \in DOMAIN result
    /\ result.decision \in {"accept", "counter_offer", "decline", "transfer"}
    /\ (result.negotiation_complete = FALSE)
         <=> (result.decision = "counter_offer")
    /\ result.decision = "counter_offer" =>
         result.negotiation_round = last.negotiation_round + 1

\* a counter-offer made in round 2 that reports round 3 and is not complete
C11_Witness ==
  /\ last.called
  /\ last.negotiation_round = 2
  /\ result.decision = "counter_offer"
  /\ result.negotiation_round = 3
  /\ result.negotiation_complete = FALSE

\* the load_ids of the loads the last search returned
ResultIds == {search.result[j].load_id : j \in 1..Len(search.result)}

\* the equipment string of a load, "" when the load has none
EquipmentOf(load) ==
  IF "equipment_type" \in DOMAIN load THEN load.equipment_type ELSE <<>>

\* two strings of which one contains the other, ignoring letter case
Overlap(a, b) == StrIn(Lower(a), Lower(b)) \/ StrIn(Lower(b), Lower(a))

\* the load's string under key contains the upper-cased token
PreferenceMet(load, key, criteria, pref) ==
  /\ pref \in DOMAIN criteria
  /\ criteria[pref] # <<>>
  /\ key \in DOMAIN load
  /\ StrIn(Upper(criteria[pref]), load[key])

\* C12: when the search names an equipment type, a load whose equipment
\* string and the requested one do not contain one another (ignoring case,
\* in either direction) is in no result list, whatever its origin,
\* destination, rate and miles.
C12_EquipmentGate ==
  (search.called /\ "equipment_type" \in DOMAIN search.criteria) =>
    \A i \in 1..Len(inventory) :
      ~Overlap(EquipmentOf(inventory[i]), search.criteria.equipment_type)
        => inventory[i].load_id \notin ResultIds

\* a load of the wrong equipment left out although its origin and its
\* destination both match the preferences of the search
C12_Witness ==
  /\ search.called
  /\ "equipment_type" \in DOMAIN search.criteria
  /\ \E i \in 1..Len(inventory) :
       /\ ~Overlap(EquipmentOf(inventory[i]), search.criteria.equipment_type)
       /\ PreferenceMet(inventory[i], "origin", search.criteria,
                        "origin_state")
       /\ PreferenceMet(inventory[i], "destination", search.criteria,
                        "destination_state")
       /\ inventory[i].load_id \notin ResultIds

\* the result of the last search that was built from the load with this id
ResultOf(id) ==
  search.result[CHOOSE j \in 1..Len(search.result) :
                  search.result[j].load_id = id]

\* the search names a non-empty equipment type and the load's equipment
\* string overlaps it
EquipmentMatched(load) ==
  /\ "equipment_type" \in DOMAIN search.criteria
  /\ search.criteria.equipment_type # <<>>
  /\ Overlap(EquipmentOf(load), search.criteria.equipment_type)

\* the load is below the minimum rate and above the maximum miles of the
\* last search
FailsRateAndMiles(load) ==
  /\ "min_rate" \in DOMAIN search.criteria
  /\ load.loadboard_rate < search.criteria.min_rate
  /\ "max_miles" \in DOMAIN search.criteria
  /\ "miles" \in DOMAIN load
  /\ load.miles > search.criteria.max_miles

\* C13: a load whose equipment matches is returned, with a score of at
\* least 40, unless five loads fill the result list, even when it is below
\* the minimum rate and above the maximum miles of the search.
C13_RateAndMilesNotFilters ==
  search.called =>
    \A i \in 1..Len(inventory) :
      (EquipmentMatched(inventory[i]) /\ FailsRateAndMiles(inventory[i])) =>
        \/ /\ inventory[i].load_id \in ResultIds
           /\ ResultOf(inventory[i].load_id).match_score >= 40
        \/ /\ inventory[i].load_id \notin ResultIds
           /\ Len(search.result) = 5

\* a returned load at 1850.00 and 1200 miles under min_rate 2000.00 and
\* max_miles 1000
C13_Witness ==
  /\ search.called
  /\ \E i \in 1..Len(inventory) :
       /\ EquipmentMatched(inventory[i])
       /\ FailsRateAndMiles(inventory[i])
       /\ inventory[i].load_id \in ResultIds
       /\ ResultOf(inventory[i].load_id).match_score >= 40

\* the positions in the inventory of the loads that pass the loop test of
\* the last search
EligiblePositions ==
  {i \in 1..Len(inventory) : Eligible(inventory[i], search.criteria)}

\* load a comes before load b in the eligible loads sorted by score
\* descending with a stable sort (load_id is the input position)
RankedBefore(score_a, id_a, score_b, id_b) ==
  score_a > score_b \/ (score_a = score_b /\ id_a < id_b)

\* C14: the result list is the first 5 (or all, when fewer) of the eligible
\* loads in score order, highest first, loads of equal score in input
\* order: never more than 5 results, and every eligible load left out
\* ranks behind every returned one.
C14_TopFiveStableOrder ==
  search.called =>
    LET res == search.result
    IN  /\ Len(res) <= 5
        /\ Len(res) = Min(5, Cardinality(EligiblePositions))
        /\ \A j \in 1..Len(res) : res[j].load_id \in EligiblePositions
        /\ \A j, k \in 1..Len(res) :
             j < k => RankedBefore(res[j].match_score, res[j].load_id,
                                   res[k].match_score, res[k].load_id)
        /\ \A i \in EligiblePositions \ ResultIds, j \in 1..Len(res) :
             RankedBefore(res[j].match_score, res[j].load_id,
                          MatchScore(inventory[i], search.criteria), i)

\* six eligible loads of two different scores: five are returned, the sort
\* moved a later load to the front, two returned loads tie, one eligible
\* load is left out
C14_Witness ==
  /\ search.called
  /\ Cardinality(EligiblePositions) = 6
  /\ Len(search.result) = 5
  /\ search.result[1].load_id # 1
  /\ search.result[1].match_score > search.result[5].match_score
  /\ search.result[1].match_score = search.result[2].match_score

\* points of a component that applies
Points(applies, points) == IF applies THEN points ELSE 0

\* the rate and the miles of a load as the loop reads them
LoadRateOf(load) ==
  IF "loadboard_rate" \in DOMAIN load THEN load.loadboard_rate ELSE 0

LoadMilesOf(load) == IF "miles" \in DOMAIN load THEN load.miles ELSE 0

\* the score the claim gives a load under the criteria of the last search;
\* a minimum rate or a maximum of miles is given when the argument is
\* passed, whatever its value
ClaimedScore(load) ==
  Points(EquipmentMatched(load), 40)
    + Points(PreferenceMet(load, "origin", search.criteria, "origin_state"),
             20)
    + Points(PreferenceMet(load, "destination", search.criteria,
                           "destination_state"), 20)
    + Points("min_rate" \in DOMAIN search.criteria
               /\ LoadRateOf(load) >= search.criteria.min_rate, 15)
    + Points("max_miles" \in DOMAIN search.criteria
               /\ LoadMilesOf(load) <= search.criteria.max_miles, 5)

\* C15: the match score of every result is the sum of the components that
\* apply: 40 equipment, 20 origin, 20 destination, 15 whenever a minimum
\* rate is given and the rate is at least it, 5 whenever a maximum of miles
\* is given and the miles are at most it.
C15_ScoreIsSumOfComponents ==
  search.called =>
    \A j \in 1..Len(search.result) :
      search.result[j].match_score
        = ClaimedScore(inventory[search.result[j].load_id])

\* the reasons in the order of the scored components, with their points
ReasonOrder ==
  <<"Equipment match", "Origin preference", "Destination preference",
    "Rate meets minimum", "Within mile limit">>

ReasonPoints == <<40, 20, 20, 15, 5>>

\* the place of a reason in ReasonOrder, 0 for any other string
ReasonIndex(reason) ==
  IF \E n \in 1..Len(ReasonOrder) : ReasonOrder[n] = reason
  THEN CHOOSE n \in 1..Len(ReasonOrder) : ReasonOrder[n] = reason
  ELSE 0

RECURSIVE SumOfReasonPoints(_)
SumOfReasonPoints(reasons) ==
  IF reasons = <<>> THEN 0
  ELSE ReasonPoints[ReasonIndex(reasons[1])]
         + SumOfReasonPoints(Tail(reasons))

\* C16: every result has an integer match score between 40 and 100 and a
\* non-empty list of reasons, one for each scored component, in the order
\* equipment, origin, destination, rate, miles.
C16_ScoreRangeAndReasons ==
  search.called =>
    \A j \in 1..Len(search.result) :
      LET res == search.result[j]
          reasons == res.match_reasons
      IN  /\ res.match_score \in 40..100
          /\ Len(reasons) >= 1
          /\ \A n \in 1..Len(reasons) : ReasonIndex(reasons[n]) # 0
          /\ \A n, m \in 1..Len(reasons) :
               n < m => ReasonIndex(reasons[n]) < ReasonIndex(reasons[m])
          /\ SumOfReasonPoints(reasons) = res.match_score

\* a result with all five components: score 100 and five reasons
C16_Witness ==
  /\ search.called
  /\ \E j \in 1..Len(search.result) :
       /\ search.result[j].match_score = 100
       /\ search.result[j].match_reasons = ReasonOrder

\* the string under key contains the token of the preference, ignoring
\* letter case on both sides
ContainsIgnoringCase(load, key, pref) ==
  /\ pref \in DOMAIN search.criteria
  /\ search.criteria[pref] # <<>>
  /\ key \in DOMAIN load
  /\ StrIn(Lower(search.criteria[pref]), Lower(load[key]))

\* the result carries the reason of a component
HasReason(res, reason) ==
  \E n \in 1..Len(res.match_reasons) : res.match_reasons[n] = reason

\* C17: a result has the origin (destination) bonus exactly when the
\* load's origin (destination) string contains the requested state token,
\* ignoring letter case in the token and in the load's string.
C17_GeoCaseInsensitive ==
  search.called =>
    \A j \in 1..Len(search.result) :
      LET res == search.result[j]
      IN  /\ HasReason(res, "Origin preference")
               <=> ContainsIgnoringCase(res, "origin", "origin_state")
          /\ HasReason(res, "Destination preference")
               <=> ContainsIgnoringCase(res, "destination",
                                        "destination_state")

\* c is rate / miles rounded to the nearest cent per mile
NearestQuotient(c, rate, miles) == Abs(2 * c * miles - 2 * rate) <= miles

\* C18: the revenue per mile of every result is the posted rate divided by
\* max(miles, 1), rounded to 2 decimals, also for 0 miles and for a load
\* without miles, where it is the posted rate.
C18_RevenuePerMile ==
  search.called =>
    \A j \in 1..Len(search.result) :
      LET res == search.result[j]
      IN  NearestQuotient(res.revenue_per_mile, LoadRateOf(res),
                          Max(LoadMilesOf(res), 1))

SearchAsAlone ==
  search.called => search.result = search_loads(inventory, search.criteria)

\* the last evaluation returned what evaluate_offer returns for its
\* arguments under the engine's configuration
EvaluateAsAlone ==
  last.called =>
    \E fp \in BOOLEAN :
      result = evaluate_offer(last.load_rate, last.carrier_offer,
                              last.negotiation_round, last.carrier_history,
                              fp)

C29_AcceptedWithinThreePercent ==
  (last.called /\ result.decision = "accept") =>
    /\ 97 * last.load_rate <= 100 * result.final_rate
    /\ 100 * result.final_rate <= 103 * last.load_rate

\* an offer more than 10% above the posted rate accepted at the posted rate
C29_Witness ==
  /\ last.called
  /\ result.decision = "accept"
  /\ 10 * last.carrier_offer > 11 * last.load_rate
  /\ result.final_rate = last.load_rate

\* the last search names no equipment type: the argument is absent or ""
NoEquipmentGiven ==
  \/ "equipment_type" \notin DOMAIN search.criteria
  \/ search.criteria.equipment_type = <<>>

\* the points of the origin, destination, rate and miles components of a
\* load under the criteria of the last search
NonEquipmentPoints(load) ==
  Points(PreferenceMet(load, "origin", search.criteria, "origin_state"), 20)
    + Points(PreferenceMet(load, "destination", search.criteria,
                           "destination_state"), 20)
    + Points("min_rate" \in DOMAIN search.criteria
               /\ search.criteria.min_rate # 0
               /\ LoadRateOf(load) >= search.criteria.min_rate, 15)
    + Points("max_miles" \in DOMAIN search.criteria
               /\ search.criteria.max_miles # 0
               /\ LoadMilesOf(load) <= search.criteria.max_miles, 5)

\* C30: when the search names no equipment type (absent or ""), no result
\* has equipment points and a load is eligible exactly when its origin,
\* destination, rate and miles points sum to at least 40, whatever its
\* equipment.
C30_NoEquipmentNoGate ==
  (search.called /\ NoEquipmentGiven) =>
    /\ \A j \in 1..Len(search.result) :
         /\ ~HasReason(search.result[j], "Equipment match")
         /\ search.result[j].match_score
              = NonEquipmentPoints(inventory[search.result[j].load_id])
    /\ \A i \in 1..Len(inventory) :
         /\ inventory[i].load_id \in ResultIds
              => NonEquipmentPoints(inventory[i]) >= 40
         /\ NonEquipmentPoints(inventory[i]) >= 40
              => (inventory[i].load_id \in ResultIds
                    \/ Len(search.result) = 5)

\* a reefer load returned by a search with equipment_type "" on origin,
\* rate and miles points alone (20 + 15 + 5)
C30_Witness ==
  /\ search.called
  /\ "equipment_type" \in DOMAIN search.criteria
  /\ search.criteria.equipment_type = <<>>
  /\ \E j \in 1..Len(search.result) :
       /\ EquipmentOf(search.result[j]) = <<"r">>
       /\ search.result[j].match_score = 40
       /\ search.result[j].match_reasons
            = <<"Origin preference", "Rate meets minimum",
                "Within mile limit">>

\* the last request was rejected by the API key dependency
KeyRejected == response.status \in {401, 422}

\* C21: GET /loads and POST /call-data answer 422 without the X-API-Key
\* header, 401 with a key other than the configured one and 200 only with
\* the exact key; a rejected request writes no row to call_data; the
\* dashboard endpoints answer without a key.
C21_ApiKeyProtects ==
  /\ [](response.endpoint \in {"GET /loads", "POST /call-data"} =>
          /\ ~response.header.given => response.status = 422
          /\ (response.header.given /\ response.header.value # API_KEY)
               => response.status = 401
          /\ response.status = 200
               => (response.header.given
                     /\ response.header.value = API_KEY))
  /\ [](response.endpoint = "GET /dashboard/api/metrics" =>
          response.status = 200)
  /\ [](response.endpoint = "GET /dashboard" =>
          response.status \notin {401, 422})
  /\ [][KeyRejected' => call_data' = call_data]_vars

\* a POST /call-data with a wrong key answered 401 after one row was stored
C21_Witness ==
  /\ response.endpoint = "POST /call-data"
  /\ response.header.given
  /\ response.header.value # API_KEY
  /\ response.status = 401
  /\ DOMAIN call_data = {"call-1"}

\* C22: a POST /call-data whose negotiations field is null stores and
\* returns 0 as the processed negotiations value.
C22_NullNegotiationsIsZero ==
  (response.endpoint = "POST /call-data" /\ response.status = 200
     /\ response.request.negotiations = JNull) =>
    /\ response.processed_values.negotiations = JInt(0)
    /\ call_data[response.call_id].negotiations = JInt(0)

\* the outcomes of the external request that the service answers with the
\* fallback: every status code and the network error
ListedOutcomes == {o \in RequestOutcomes : o.kind # "Exception"}

\* membership in the rule of the fallback, on the cleaned number
FallbackValid(clean_mc) ==
  \/ clean_mc \in {<<"1", "2", "3", "4", "5", "6">>, <<"6", "5", "4", "3", "2", "1">>, <<"1", "1", "1", "1", "1", "1">>}
  \/ clean_mc[1] = "1"
  \/ clean_mc[Len(clean_mc)] \in {"0", "2", "4", "6", "8"}

\* C28: verify_mc_number depends on the MC number alone.  With fewer than 6
\* digits after stripping the non-digits it returns valid = false with
\* 'Invalid MC number format' and sends no request; otherwise every outcome
\* of the request (200 with or without 'Record Not Found', 404, another
\* status, a RequestError) gives one and the same result, valid exactly
\* when the cleaned number is 123456, 654321 or 111111, starts with 1 or
\* ends in an even digit.
C28_VerificationDependsOnNumberOnly ==
  (carrier.called /\ carrier.outcome \in ListedOutcomes) =>
    LET clean_mc == SelectSeq(carrier.mc_number, IsDigit)
    IN  IF Len(clean_mc) < 6
        THEN /\ carrier.result.valid = FALSE
             /\ carrier.result.error = "Invalid MC number format"
             /\ ~carrier.request_sent
        ELSE /\ carrier.result.valid = FallbackValid(clean_mc)
             /\ \A o \in ListedOutcomes :
                  verify_mc_number(carrier.mc_number, o) = carrier.result

\* a 404 from the service for a number that the fallback accepts
C28_Witness ==
  /\ carrier.called
  /\ carrier.outcome = StatusOutcome(404, FALSE)
  /\ carrier.mc_number = <<"2", "0", "0", "0", "0", "2">>
  /\ carrier.request_sent
  /\ carrier.result.valid

\* the elements of a list
Range(seq) == {seq[i] : i \in DOMAIN seq}

\* C25: process_inbound_call, given call data with an MC number, completes
\* without raising: it records carrier_verified and either rejects the
\* carrier before load matching or goes on to load matching.
C25_InboundCallCompletes ==
  (inbound.called /\ "mc_number" \in DOMAIN inbound.call_data
                  /\ inbound.call_data["mc_number"] # <<>>) =>
    /\ "raised" \notin DOMAIN inbound.outcome
    /\ "carrier_verified" \in DOMAIN inbound.outcome
    /\ IF inbound.outcome.carrier_verified
       THEN "load_matching" \in Range(inbound.outcome.steps_completed)
       ELSE /\ inbound.outcome.status = "rejected"
            /\ inbound.outcome.reason = "Carrier verification failed"
            /\ "load_matching" \notin Range(inbound.outcome.steps_completed)

\* the last webhook answered was a negotiate-rate request
NegotiateAnswered == hook.endpoint = "negotiate-rate"

\* C24: a negotiate-rate request whose load_id matches no load fails with
\* status 404 'Load not found', the negotiator is not called and
\* call_data_store is left as it was.
C24_UnknownLoadIs404 ==
  (/\ NegotiateAnswered
   /\ \A i \in DOMAIN inventory :
        inventory[i].load_id # hook.request.load_id) =>
    /\ hook.status = 404
    /\ ~hook.evaluated.called
    /\ DOMAIN completed[Len(completed)].written = {}

\* C23: within one call session the k-th carrier offer is evaluated with
\* round k, whatever round the request carries or omits.
C23_RoundFromSessionHistory ==
  (/\ NegotiateAnswered
   /\ hook.status = 200
   /\ hook.request.call_id # NoCallId) =>
    hook.evaluated.negotiation_round =
      Len(call_data_store[hook.request.call_id].negotiations)

\* the positions in completed of the negotiate-rate calls of a call_id
NegotiateCalls(call_id) ==
  {i \in DOMAIN completed :
     /\ completed[i].endpoint = "negotiate-rate"
     /\ completed[i].call_id = call_id}

\* those of them that were answered with a result
NegotiateResults(call_id) ==
  {i \in NegotiateCalls(call_id) : completed[i].status = 200}

\* the call_ids whose entry has a negotiations list
WithNegotiations(store) ==
  {call_id \in DOMAIN store : "negotiations" \in DOMAIN store[call_id]}

\* C26 as stated: the negotiations list of a call_id holds one entry per
\* negotiate-rate call made with that call_id.
C26_OneEntryPerCallMade ==
  \A call_id \in WithNegotiations(call_data_store) :
    Len(call_data_store[call_id].negotiations) =
      Cardinality(NegotiateCalls(call_id))

IsPrefix(s, t) == Len(s) <= Len(t) /\ SubSeq(t, 1, Len(s)) = s

\* C26 (amended): the negotiations list of a call_id holds one entry per
\* negotiate-rate call with that call_id that was answered with a result
\* (a call that fails adds none), in call order; latest_negotiation is the
\* result of the last entry; and no step of any webhook changes or removes
\* an entry that is in the list.
C26_NegotiationsAppendOnly ==
  /\ [](\A call_id \in WithNegotiations(call_data_store) :
          LET negotiations == call_data_store[call_id].negotiations
              answered == NegotiateResults(call_id)
          IN  /\ Len(negotiations) = Cardinality(answered)
              /\ \A k \in DOMAIN negotiations :
                   /\ negotiations[k].timestamp \in answered
                   /\ k = Cardinality({i \in answered :
                                         i <= negotiations[k].timestamp})
                   /\ negotiations[k].result =
                        completed[negotiations[k].timestamp]
                          .written.latest_negotiation
              /\ call_data_store[call_id].latest_negotiation =
                   negotiations[Len(negotiations)].result)
  /\ [][\A call_id \in WithNegotiations(call_data_store) :
          /\ call_id \in WithNegotiations(call_data_store')
          /\ IsPrefix(call_data_store[call_id].negotiations,
                      call_data_store'[call_id].negotiations)]_vars

\* two offers of a call answered, then its load confirmed
C26_Witness ==
  /\ Len(completed) = 3
  /\ completed[3].endpoint = "confirm-load"
  /\ completed[3].call_id = "call-1"
  /\ "call-1" \in WithNegotiations(call_data_store)
  /\ Len(call_data_store["call-1"].negotiations) = 2
  /\ call_data_store["call-1"].status = "load_assigned"

\* the positions in completed of the handlers that wrote key into the entry
\* of call_id
Writers(call_id, key) ==
  {i \in DOMAIN completed :
     completed[i].call_id = call_id /\ key \in DOMAIN completed[i].written}

\* every key that a handler may write
EntryKeys ==
  {"mc_number", "verification_result", "timestamp", "equipment_type",
   "search_criteria", "matching_loads", "load_count", "negotiations",
   "latest_negotiation", "status", "confirmation_number", "final_rate",
   "assignment_time", "extracted_data", "processing_complete"}

\* C27: whatever the interleaving of the handlers on a call_id, no update
\* of call_data_store is lost: the entry holds every field written by a
\* handler that completed, with the value of the last handler that wrote it,
\* and one negotiations entry per completed negotiate-rate call.
C27_NoLostUpdate ==
  \A call_id \in {c \in HookCallIds : c # NoCallId}, key \in EntryKeys :
    Writers(call_id, key) # {} =>
      /\ call_id \in DOMAIN call_data_store
      /\ key \in DOMAIN call_data_store[call_id]
      /\ LET last_writer == CHOOSE i \in Writers(call_id, key) :
                              \A j \in Writers(call_id, key) : j <= i
         IN  call_data_store[call_id][key] = completed[last_writer].written[key]
      /\ key = "negotiations" =>
           Len(call_data_store[call_id].negotiations) =
             Cardinality(NegotiateResults(call_id))

\* a verify-carrier handler that resumed after a negotiate-rate handler of
\* the same call had run during its suspension
C27_Witness ==
  /\ Len(completed) = 2
  /\ completed[1].endpoint = "negotiate-rate"
  /\ completed[1].status = 200
  /\ completed[1].call_id = "call-1"
  /\ completed[2].endpoint = "verify-carrier"
  /\ completed[2].call_id = "call-1"
  /\ completed[2].received = 0
  /\ Len(call_data_store["call-1"].negotiations) = 1
  /\ "verification_result" \in DOMAIN call_data_store["call-1"]

====
